---- MODULE Spec2Model ----
(***************************************************************************)
(* A model of pkg/util/tracing/tracer.go: the Tracer (configuration cells, *)
(* external "shadow" backend pointer, registry of active local root        *)
(* spans), span creation (startSpanGeneric), the wire codec                *)
(* (InjectMetaInto / ExtractMetaFrom) and VisitSpans.                      *)
(*                                                                         *)
(* Go strings are modelled as sequences of one-character strings so that   *)
(* prefixing, trimming, lower-casing, hexadecimal formatting and parsing   *)
(* are computed the way the code computes them.                            *)
(***************************************************************************)
EXTENDS Integers, Sequences, FiniteSets, TLC

(***************************************************************************)
(* Bounds of the model.                                                    *)
(***************************************************************************)
\* Largest value of an unsigned integer on the wire (2^64 - 1 in the code;
\* scaled down so that overflow of ParseUint is reachable).
MaxUint == 255
\* rand.Int63() draws from 0 .. MaxRand (0 .. 2^63 - 1 in the code).
MaxRand == 1
\* Number of spans that may be allocated in one behaviour.
MaxSpans == 2
\* Number of external backend handles that may be created in one behaviour.
MaxHandles == 2
\* Number of times Configure may be called (each call registers callbacks).
MaxConfigure == 2
\* Number of tasks that may be inside Tracer.Close at the same time, next to
\* the task that reconfigures.
MaxClosers == 2
\* Number of entries a carrier may hold before a peer or InjectMetaInto adds
\* to it no more.
MaxCarrier == 2

(***************************************************************************)
(* Strings.                                                                *)
(***************************************************************************)
Lower == <<"a","b","c","d","e","f","g","h","i","j","k","l","m",
           "n","o","p","q","r","s","t","u","v","w","x","y","z">>
Upper == <<"A","B","C","D","E","F","G","H","I","J","K","L","M",
           "N","O","P","Q","R","S","T","U","V","W","X","Y","Z">>

\* The lower-case letter of every upper-case letter.
LowerOf == [c \in {Upper[i] : i \in 1..26} |-> Lower[CHOOSE i \in 1..26 : Upper[i] = c]]

\* strings.ToLower on one character.
ToLowerChar(c) == IF c \in DOMAIN LowerOf THEN LowerOf[c] ELSE c

\* strings.ToLower
ToLower(s) == [i \in 1..Len(s) |-> ToLowerChar(s[i])]

\* strings.HasPrefix
HasPrefix(s, p) == Len(s) >= Len(p) /\ SubSeq(s, 1, Len(p)) = p

\* strings.TrimPrefix
TrimPrefix(s, p) == IF HasPrefix(s, p) THEN SubSeq(s, Len(p) + 1, Len(s)) ELSE s

HexDigits == <<"0","1","2","3","4","5","6","7","8","9","a","b","c","d","e","f">>

\* The value of every hexadecimal digit.
HexValOf == [c \in {HexDigits[i] : i \in 1..16} |-> (CHOOSE i \in 1..16 : HexDigits[i] = c) - 1]

\* The value of a hexadecimal digit, either case; -1 when c is no digit.
HexVal(c) ==
  LET l == ToLowerChar(c) IN
  IF l \in DOMAIN HexValOf THEN HexValOf[l] ELSE -1

\* strconv.FormatUint(x, 16)
RECURSIVE FormatUint(_)
FormatUint(x) ==
  IF x < 16 THEN <<HexDigits[x + 1]>>
  ELSE Append(FormatUint(x \div 16), HexDigits[(x % 16) + 1])

\* strconv.ParseUint(s, 16, 64): [ok, val]. It fails on the empty string, on
\* a character that is no hexadecimal digit, and on a value out of range.
RECURSIVE ParseUintFrom(_, _, _)
ParseUintFrom(s, i, acc) ==
  IF i > Len(s) THEN [ok |-> TRUE, val |-> acc]
  ELSE IF HexVal(s[i]) < 0 THEN [ok |-> FALSE, val |-> 0]
  ELSE IF acc * 16 + HexVal(s[i]) > MaxUint THEN [ok |-> FALSE, val |-> MaxUint]
  ELSE ParseUintFrom(s, i + 1, acc * 16 + HexVal(s[i]))

ParseUint(s) ==
  IF Len(s) = 0 THEN [ok |-> FALSE, val |-> 0] ELSE ParseUintFrom(s, 1, 0)

(***************************************************************************)
(* Wire keys.                                                              *)
(***************************************************************************)
prefixTracerState == <<"c","r","d","b","-","t","r","a","c","e","r","-">>
prefixBaggage     == <<"c","r","d","b","-","b","a","g","g","a","g","e","-">>
prefixShadow      == <<"c","r","d","b","-","s","h","a","d","o","w","-">>
fieldNameTraceID    == prefixTracerState \o <<"t","r","a","c","e","i","d">>
fieldNameSpanID     == prefixTracerState \o <<"s","p","a","n","i","d">>
fieldNameShadowType == prefixTracerState \o <<"s","h","a","d","o","w","t","y","p","e">>
verboseTracingBaggageKey == <<"s","b">>

(***************************************************************************)
(* Program constants.                                                      *)
(***************************************************************************)
modeLegacy == 0
modeBackground == 1

\* The type tags of the external backends, as text; NoType is "".
NoType == <<>>
lightstepType == <<"l","i","g","h","t","s","t","e","p">>
zipkinType == <<"z","i","p","k","i","n">>
\* A nil opentracing.SpanContext, and a backend context.
NilCtx == <<>>
SomeCtx == <<"7">>

RecordingOff == "off"
RecordingVerbose == "verbose"

ChildOfRef == "ChildOfRef"
FollowsFromRef == "FollowsFromRef"
\* A reference type that is neither of the two above.
OtherRef == "OtherRef"

\* A nil *Span and the index of the tracer's preallocated noopSpan.
NilSpan == -1
noopSpan == 0

\* var noopSpanMeta = &SpanMeta{}
noopSpanMeta ==
  [traceID |-> 0, spanID |-> 0, shadowTracerType |-> NoType, shadowCtx |-> NilCtx,
   recordingType |-> RecordingOff, Baggage |-> <<>>]
\* A nil *SpanMeta.
NilMeta == [nil |-> TRUE]

VARIABLES
  sv,            \* settings.Values: [mode, netTrace, lsToken, zipkin]
  nConfigure,    \* number of reconfigure closures registered with SetOnChange
  _mode,         \* Tracer._mode
  _useNetTrace,  \* Tracer._useNetTrace
  shadowTracer,  \* Tracer.shadowTracer: 0 (nil) or an index into handles
  handles,       \* every shadowTracer created: [typ, closed (number of Close calls)]
  activeSpans,   \* Tracer.activeSpans.m: a set of span indices
  spans,         \* every real Span allocated, by index (its identity)
  ret,           \* the last operation and what it returned
  carrier,       \* the Carrier the codec works on: [kind, m, from]
  creator,       \* the task inside startSpanGeneric, or inside a function that
                 \* goes on after it or calls cancel: its position and locals
  swapper,       \* the task inside setShadowTracer: its position and locals
  closers,       \* the tasks inside Tracer.Close: their positions and locals
  mu,            \* the spans whose crdb.mu is held
  hist,          \* the baggage maps the parent has held during the call in progress
  visitor,       \* the task inside VisitSpans: its position and locals
  activeSpansMu  \* Tracer.activeSpans.Mutex: "free", or the function that holds it

cfgVars == <<sv, nConfigure, _mode, _useNetTrace, shadowTracer, handles>>
spanVars == <<activeSpans, spans>>
wireVars == <<carrier>>
visitVars == <<visitor, activeSpansMu>>
otherTaskVars == <<swapper, closers, mu, hist, visitVars>>
taskVars == <<creator, otherTaskVars>>

(***************************************************************************)
(* Settings and configuration.                                             *)
(***************************************************************************)
Tokens == {"", "tok"}
Addrs == {"", "addr"}
SettingsValues ==
  [mode : {modeLegacy, modeBackground}, netTrace : BOOLEAN,
   lsToken : Tokens, zipkin : Addrs]

\* The Tracer's configuration cells and the backends created so far, as one
\* record, so that runs of reconfigure compose.
TracerCfg ==
  [mode |-> _mode, nt |-> _useNetTrace, shadow |-> shadowTracer, handles |-> handles]

\* The first half of setShadowTracer(manager, tr): the new shadowTracer is
\* made and swapped in (atomic.SwapPointer). typ = NoType stands for a nil
\* manager.
swapShadowTracer(c, typ) ==
  LET hs  == IF typ # NoType THEN Append(c.handles, [typ |-> typ, closed |-> 0])
             ELSE c.handles
      new == IF typ # NoType THEN Len(hs) ELSE 0
  IN [c EXCEPT !.shadow = new, !.handles = hs]

\* The second half without the call of Close().
closeShadowTracer_Skip(hs, old) == hs

\* The second half: Close() on the handle old that the swap returned.
closeShadowTracer(hs, old) ==
  IF old # 0 THEN [hs EXCEPT ![old].closed = @ + 1] ELSE hs

\* setShadowTracer closing the handle it has just stored.
setShadowTracer_CloseNew(c, typ) ==
  [swapShadowTracer(c, typ) EXCEPT !.handles = closeShadowTracer(@, swapShadowTracer(c, typ).shadow)]

\* setShadowTracer(manager, tr)
setShadowTracer(c, typ) ==
  [swapShadowTracer(c, typ) EXCEPT !.handles = closeShadowTracer(@, c.shadow)]

\* The selection with the two tests in the other order.
BackendOf_ZipkinFirst(s) ==
  IF s.zipkin # "" THEN zipkinType
  ELSE IF s.lsToken # "" THEN lightstepType
  ELSE NoType

\* The type of backend the settings s select: Lightstep before Zipkin.
BackendOf(s) ==
  IF s.lsToken # "" THEN lightstepType
  ELSE IF s.zipkin # "" THEN zipkinType
  ELSE NoType

\* The closure reconfigure of Configure, run on the settings s.
reconfigure(c, s) ==
  LET c1 == [c EXCEPT !.mode = s.mode]
      c2 == setShadowTracer(c1, BackendOf(s))
  IN [c2 EXCEPT !.nt = IF s.netTrace THEN 1 ELSE 0]

RECURSIVE reconfigureN(_, _, _)
reconfigureN(c, s, n) ==
  IF n = 0 THEN c ELSE reconfigureN(reconfigure(c, s), s, n - 1)

\* The settings Configure registers reconfigure with (SetOnChange).
OnChangeSettings == {"netTrace", "lsToken", "zipkin"}

SetCfg(c) ==
  /\ _mode' = c.mode
  /\ _useNetTrace' = c.nt
  /\ shadowTracer' = c.shadow
  /\ handles' = c.handles

\* The number of handles n runs of reconfigure on s create.
HandlesNeeded(s, n) == IF BackendOf(s) # NoType THEN n ELSE 0

\* Tracer.Configure(sv)
Configure ==
  /\ nConfigure < MaxConfigure
  /\ Len(handles) + HandlesNeeded(sv, 1) <= MaxHandles
  /\ SetCfg(reconfigure(TracerCfg, sv))
  /\ nConfigure' = nConfigure + 1
  /\ ret' = [op |-> "Configure"]
  /\ UNCHANGED <<sv, spanVars, wireVars, taskVars>>

\* A change of one setting: the settings framework stores the new value and
\* calls every closure registered for that setting.
SettingChanged(name, s) ==
  LET n == IF name \in OnChangeSettings THEN nConfigure ELSE 0 IN
  /\ Len(handles) + HandlesNeeded(s, n) <= MaxHandles
  /\ sv' = s
  /\ SetCfg(reconfigureN(TracerCfg, s, n))
  /\ ret' = [op |-> "SetSetting", name |-> name]
  /\ UNCHANGED <<nConfigure, spanVars, wireVars, taskVars>>

\* SET CLUSTER SETTING trace.mode
SetMode ==
  \E v \in {modeLegacy, modeBackground} :
    v # sv.mode /\ SettingChanged("mode", [sv EXCEPT !.mode = v])

\* SET CLUSTER SETTING trace.debug.enable
SetNetTrace ==
  \E v \in BOOLEAN :
    v # sv.netTrace /\ SettingChanged("netTrace", [sv EXCEPT !.netTrace = v])

\* SET CLUSTER SETTING trace.lightstep.token
SetLightstepToken ==
  \E v \in Tokens :
    v # sv.lsToken /\ SettingChanged("lsToken", [sv EXCEPT !.lsToken = v])

\* SET CLUSTER SETTING trace.zipkin.collector
SetZipkinCollector ==
  \E v \in Addrs :
    v # sv.zipkin /\ SettingChanged("zipkin", [sv EXCEPT !.zipkin = v])

\* Tracer.Close()
Close ==
  /\ SetCfg(setShadowTracer(TracerCfg, NoType))
  /\ ret' = [op |-> "Close"]
  /\ UNCHANGED <<sv, nConfigure, spanVars, wireVars, taskVars>>

\* Tracer.mode()
mode == _mode
\* Tracer.useNetTrace()
useNetTrace == _useNetTrace # 0
\* Tracer.getShadowTracer()
getShadowTracer == shadowTracer

\* AlwaysTrace without the test of the shadow tracer.
AlwaysTrace_NetTraceOnly == useNetTrace

\* Tracer.AlwaysTrace()
AlwaysTrace == useNetTrace \/ getShadowTracer # 0

(***************************************************************************)
(* Spans and span options.                                                 *)
(***************************************************************************)
\* Span.Finish stores a duration drawn from 0 .. MaxDur.
MaxDur == 1

EmptyMap == <<>>
sbOne == (verboseTracingBaggageKey :> <<"1">>)

\* The SpanMeta values a caller may pass as a remote parent.
RemoteMetas ==
  { noopSpanMeta,
    [traceID |-> 1, spanID |-> 1, shadowTracerType |-> NoType, shadowCtx |-> NilCtx,
     recordingType |-> RecordingOff, Baggage |-> EmptyMap],
    [traceID |-> 1, spanID |-> 1, shadowTracerType |-> zipkinType, shadowCtx |-> SomeCtx,
     recordingType |-> RecordingVerbose, Baggage |-> sbOne] }

\* spanOptions, as far as startSpanGeneric reads them.
AllOptions ==
  [Parent : {NilSpan, noopSpan} \cup (1..Len(spans)),
   RemoteParent : {NilMeta} \cup RemoteMetas,
   RefType : {ChildOfRef, FollowsFromRef, OtherRef},
   ForceRealSpan : BOOLEAN,
   BypassRegistry : BOOLEAN]

\* The options the model calls StartSpanCtx with: every combination of
\* parent, remote parent, force and bypass with a valid reference type
\* (follows-from with a local parent, as ForkSpan passes it), and the invalid
\* reference type.
SpanOptions ==
  { o \in AllOptions :
      /\ o.RefType = OtherRef =>
            /\ o.Parent = NilSpan /\ o.RemoteParent = NilMeta
            /\ ~o.ForceRealSpan /\ ~o.BypassRegistry
      /\ o.RefType = FollowsFromRef =>
            /\ o.Parent # NilSpan /\ o.RemoteParent = NilMeta
            /\ ~o.ForceRealSpan /\ ~o.BypassRegistry }

\* Span.isNoop()
isNoop(sp) == sp = noopSpan

\* spanOptions.recordingType(): the local parent's recording type when there
\* is a real local parent, else the remote parent's flag, else off.
recordingType(o) ==
  IF o.Parent # NilSpan /\ ~isNoop(o.Parent) THEN spans[o.Parent].recordingType
  ELSE IF o.RemoteParent # NilMeta THEN o.RemoteParent.recordingType
  ELSE RecordingOff

\* spanOptions.parentTraceID()
parentTraceID(o) ==
  IF o.Parent # NilSpan /\ ~isNoop(o.Parent) THEN spans[o.Parent].traceID
  ELSE IF o.RemoteParent # NilMeta THEN o.RemoteParent.traceID
  ELSE 0

\* spanOptions.parentSpanID()
parentSpanID(o) ==
  IF o.Parent # NilSpan /\ ~isNoop(o.Parent) THEN spans[o.Parent].spanID
  ELSE IF o.RemoteParent # NilMeta THEN o.RemoteParent.spanID
  ELSE 0

\* spanOptions.shadowTrTyp(): the type of the backend the parent was made with.
shadowTrTyp(o) ==
  IF o.Parent # NilSpan /\ ~isNoop(o.Parent) /\ spans[o.Parent].shadow # 0
  THEN [ok |-> TRUE, typ |-> handles[spans[o.Parent].shadow].typ]
  ELSE IF o.RemoteParent # NilMeta /\ o.RemoteParent.shadowTracerType # NoType
  THEN [ok |-> TRUE, typ |-> o.RemoteParent.shadowTracerType]
  ELSE [ok |-> FALSE, typ |-> NoType]

\* OptsPanic without the check of the two parents.
OptsPanic_RefTypeOnly(o) == o.RefType # ChildOfRef /\ o.RefType # FollowsFromRef

\* The two checks that open startSpanGeneric: either panics.
OptsPanic(o) ==
  \/ o.RefType # ChildOfRef /\ o.RefType # FollowsFromRef
  \/ o.Parent # NilSpan /\ o.RemoteParent # NilMeta

\* opts.ForceRealSpan after "if t.mode() == modeBackground".
ForceReal(o) == o.ForceRealSpan \/ mode = modeBackground

\* ReturnsNoop that makes a real span for every caller with a local parent.
ReturnsNoop_RealWithParent(o) ==
  /\ ~AlwaysTrace
  /\ recordingType(o) = RecordingOff
  /\ ~ForceReal(o)
  /\ o.Parent = NilSpan

\* The test that returns t.noopSpan.
ReturnsNoop(o) ==
  /\ ~AlwaysTrace
  /\ recordingType(o) = RecordingOff
  /\ ~ForceReal(o)

\* The backend handle the new span's shadow span is made on; 0 when the span
\* gets no shadow span. shadowTr is what getShadowTracer returned.
ShadowFor(o, shadowTr) ==
  LET t1  == shadowTrTyp(o)
      ok2 == shadowTr # 0
  IN IF ok2 /\ (~t1.ok \/ t1.typ = handles[shadowTr].typ) THEN shadowTr ELSE 0

\* NewSpan with the duration left at the zero value of time.Duration.
NewSpan_DurationZero(o, shadowTr, netTr, r1, r2) ==
  [traceID       |-> IF parentTraceID(o) = 0 THEN r1 ELSE parentTraceID(o),
   spanID        |-> r2,
   parentSpanID  |-> parentSpanID(o),
   recordingType |-> recordingType(o),
   duration      |-> 0,
   shadow        |-> ShadowFor(o, shadowTr),
   netTr         |-> netTr,
   baggage       |-> EmptyMap,
   parent        |-> o.Parent,
   bypass        |-> o.BypassRegistry]

\* NewSpan with recording left off: enableRecording is not called.
NewSpan_NotRecording(o, shadowTr, netTr, r1, r2) ==
  [traceID       |-> IF parentTraceID(o) = 0 THEN r1 ELSE parentTraceID(o),
   spanID        |-> r2,
   parentSpanID  |-> parentSpanID(o),
   recordingType |-> RecordingOff,
   duration      |-> -1,
   shadow        |-> ShadowFor(o, shadowTr),
   netTr         |-> netTr,
   baggage       |-> EmptyMap,
   parent        |-> o.Parent,
   bypass        |-> o.BypassRegistry]

\* The span record startSpanGeneric allocates; r1 and r2 are the two draws
\* of rand.Int63(). The fields parent and bypass record the options the span
\* was started with (opts.Parent, opts.BypassRegistry).
NewSpan(o, shadowTr, netTr, r1, r2) ==
  [traceID       |-> IF parentTraceID(o) = 0 THEN r1 ELSE parentTraceID(o),
   spanID        |-> r2,
   parentSpanID  |-> parentSpanID(o),
   recordingType |-> recordingType(o),
   duration      |-> -1,
   shadow        |-> ShadowFor(o, shadowTr),
   netTr         |-> netTr,
   baggage       |-> EmptyMap,
   parent        |-> o.Parent,
   bypass        |-> o.BypassRegistry]

\* The baggage the new span ends with: the real local parent's, or the
\* remote parent's when there is no local parent.
InitialBaggage(o) ==
  IF o.Parent # NilSpan
  THEN IF ~isNoop(o.Parent) THEN spans[o.Parent].baggage ELSE EmptyMap
  ELSE IF o.RemoteParent # NilMeta THEN o.RemoteParent.Baggage ELSE EmptyMap

\* Registers without the test of opts.BypassRegistry.
Registers_IgnoreBypass(o) == o.Parent = NilSpan

\* Registers with the no-op span counted as no parent.
Registers_NoRealParent(o) ==
  (o.Parent = NilSpan \/ isNoop(o.Parent)) /\ ~o.BypassRegistry

\* Registers with a test of opts.RemoteParent added.
Registers_NoParentAtAll(o) ==
  o.Parent = NilSpan /\ o.RemoteParent = NilMeta /\ ~o.BypassRegistry

\* Whether the new span is put into the registry of active local root spans.
Registers(o) == o.Parent = NilSpan /\ ~o.BypassRegistry

\* StartSpanCtx called by name: the result is returned as it is.
Direct == <<>>

\* Which exported function started a span, and on which context: kept next
\* to the span record, for the properties to read. A caller that passes no
\* context of its own called StartSpanCtx by name.
Origin(via) ==
  IF "ctx" \in DOMAIN via THEN [op |-> via.op, ctx |-> via.ctx]
  ELSE [op |-> "StartSpanCtx"]

\* The orders in which a range over the map S may yield its keys.
RECURSIVE Orders(_)
Orders(S) ==
  IF S = {} THEN { <<>> }
  ELSE UNION { { <<x>> \o t : t \in Orders(S \ {x}) } : x \in S }

\* Whether the call ends with the loop over the remote parent's baggage:
\* there is no local parent, and the remote parent carries items.
CopiesRemoteBaggage(o) ==
  o.Parent = NilSpan /\ o.RemoteParent # NilMeta /\ o.RemoteParent.Baggage # EmptyMap

\* The spans the exported functions have returned: every span but the one
\* a task is still constructing.
Returned ==
  IF creator.at \in {"lock", "copy", "remote", "setVerbose"} THEN 1..(Len(spans) - 1) ELSE 1..Len(spans)

\* The real local parent of the span under construction; NilSpan if none.
ParentInUse ==
  IF creator.at # "idle" /\ creator.o.Parent # NilSpan /\ ~isNoop(creator.o.Parent)
  THEN creator.o.Parent ELSE NilSpan

\* What the exported function does once startSpanGeneric has returned a
\* real span: nothing ("idle"), or sp.SetVerbose(true).
After(via) == IF "after" \in DOMAIN via THEN via.after ELSE "idle"

\* startSpanGeneric returns the real span of the result res: to the caller
\* of the exported function, or to the exported function, which goes on.
Return(res) ==
  IF After(res) = "idle"
  THEN creator' = [at |-> "idle"] /\ ret' = res
  ELSE /\ creator' = [at |-> After(res), res |-> res]
       /\ ret' = [op |-> "started", sp |-> res.sp]

\* Tracer.startSpanGeneric, called by a task that runs it while no task
\* changes the tracer's configuration or the parent's baggage (CreateBegin
\* and the steps after it are the call under such tasks): it waits for the
\* parent's lock and the registry's, and is one step up to the return or,
\* under a remote parent with baggage, up to the Unlock of the registry,
\* the items being copied by CreateRemoteCopy.
\* r1 and r2 are what the two calls of rand.Int63() return, and via holds
\* what the exported function that was called puts in place of, or next
\* to, the fields of the result.
startSpanGenericVia(via, o, r1, r2) ==
  \* the calling task is not inside another call
  /\ creator.at = "idle"
  /\ IF OptsPanic(o)
     THEN /\ ret' = via @@ [op |-> "StartSpanCtx", opts |-> o, panic |-> TRUE, sp |-> NilSpan]
          /\ UNCHANGED <<cfgVars, spanVars, creator>>
     ELSE IF ReturnsNoop(o)
     THEN /\ ret' = via @@ [op |-> "StartSpanCtx", opts |-> o, panic |-> FALSE, sp |-> noopSpan]
          /\ UNCHANGED <<cfgVars, spanVars, creator>>
     ELSE /\ Len(spans) < MaxSpans
          \* opts.Parent.crdb.mu.Lock() blocks while the lock is held
          /\ (o.Parent # NilSpan /\ ~isNoop(o.Parent)) => o.Parent \notin mu
          \* t.activeSpans.Lock() blocks while the lock is held
          /\ Registers(o) => activeSpansMu = "free"
          /\ LET s   == Len(spans) + 1
                 sp  == NewSpan(o, getShadowTracer, useNetTrace, r1, r2)
                        @@ [origin |-> Origin(via)]
                 res == via @@ [op |-> "StartSpanCtx", opts |-> o, panic |-> FALSE, sp |-> s]
             IN /\ activeSpans' = IF Registers(o) THEN activeSpans \cup {s} ELSE activeSpans
                /\ IF CopiesRemoteBaggage(o)
                   THEN /\ spans' = Append(spans, sp)
                        /\ \E ord \in Orders(DOMAIN o.RemoteParent.Baggage) :
                             creator' = [at |-> "remote", o |-> o, keys |-> ord, res |-> res]
                        /\ ret' = [op |-> "register", sp |-> s]
                   ELSE /\ spans' = Append(spans, [sp EXCEPT !.baggage = InitialBaggage(o)])
                        /\ Return(res)
          /\ UNCHANGED cfgVars

\* Tracer.startSpanGeneric, called by StartSpanCtx.
startSpanGeneric(o, r1, r2) == startSpanGenericVia(Direct, o, r1, r2)

\* What rand.Int63() may return.
IdDraws == 0..MaxRand
\* One nonzero value of rand.Int63(): the draws of the specifications that
\* are not about the identifiers.
OneId == {1}

\* The options of the callers that leave the registry alone: every option
\* but WithBypassRegistry.
DecisionOptions == { o \in SpanOptions : ~o.BypassRegistry }

\* The options of the callers the registry sees: a local parent or none,
\* with and without WithForceRealSpan and WithBypassRegistry.
RegistryOptions ==
  { o \in SpanOptions : o.RemoteParent = NilMeta /\ o.RefType = ChildOfRef }

\* Tracer.StartSpanCtx(ctx, operationName, os...) with options of O, and
\* with rand.Int63() returning values of R.
StartSpanCtx(O, R) ==
  \E o \in O, r2 \in R :
    \* the first draw is made only when there is no parent trace id
    \E r1 \in (IF ~OptsPanic(o) /\ parentTraceID(o) = 0 THEN R ELSE {r2}) :
      startSpanGeneric(o, r1, r2) /\ UNCHANGED <<wireVars, otherTaskVars>>

\* The spans a context.Context may hold: none, the noopSpan, or a real span.
CtxSpans == {NilSpan, noopSpan} \cup (1..Len(spans))

\* A context.Context, as far as the tracer reads it: the span it holds, and
\* SpanFromContext(ctx).
ContextOf(sp) == [span |-> sp]
SpanFromContext(ctx) == ctx.span

\* Span.Meta(): the SpanMeta of a span; noopSpanMeta for the noopSpan.
Meta(sp) ==
  IF isNoop(sp) THEN noopSpanMeta
  ELSE [traceID |-> spans[sp].traceID, spanID |-> spans[sp].spanID,
        shadowTracerType |-> IF spans[sp].shadow # 0 THEN handles[spans[sp].shadow].typ
                             ELSE NoType,
        shadowCtx |-> IF spans[sp].shadow # 0 THEN SomeCtx ELSE NilCtx,
        recordingType |-> spans[sp].recordingType,
        Baggage |-> spans[sp].baggage]

\* WithParentAndAutoCollection(sp), WithFollowsFrom()
ForkSpanOptions(sp) ==
  [Parent |-> sp, RemoteParent |-> NilMeta, RefType |-> FollowsFromRef,
   ForceRealSpan |-> FALSE, BypassRegistry |-> FALSE]

\* ChildSpanOptions with the reference type of ForkSpan.
ChildSpanOptions_FollowsFrom(sp) ==
  [Parent |-> sp, RemoteParent |-> NilMeta, RefType |-> FollowsFromRef,
   ForceRealSpan |-> FALSE, BypassRegistry |-> FALSE]

\* WithParentAndAutoCollection(sp)
ChildSpanOptions(sp) ==
  [Parent |-> sp, RemoteParent |-> NilMeta, RefType |-> ChildOfRef,
   ForceRealSpan |-> FALSE, BypassRegistry |-> FALSE]

\* ChildSpanRemoteOptions with the option of ChildSpan.
ChildSpanRemoteOptions_AutoCollection(sp) ==
  [Parent |-> sp, RemoteParent |-> NilMeta, RefType |-> ChildOfRef,
   ForceRealSpan |-> FALSE, BypassRegistry |-> FALSE]

\* WithParentAndManualCollection(sp.Meta())
ChildSpanRemoteOptions(sp) ==
  [Parent |-> NilSpan, RemoteParent |-> Meta(sp), RefType |-> ChildOfRef,
   ForceRealSpan |-> FALSE, BypassRegistry |-> FALSE]

\* The body shared by ForkSpan, ChildSpan and ChildSpanRemote, called as
\* name on the context ctx: nothing without a span in the context, else
\* StartSpanCtx on the span's tracer with the options o, which the caller
\* makes from the span.
DerivedSpan(name, ctx, o) ==
  /\ IF SpanFromContext(ctx) = NilSpan
     THEN /\ ret' = [op |-> name, ctx |-> ctx, started |-> FALSE,
                     ctxOut |-> ctx, sp |-> NilSpan]
          /\ UNCHANGED <<cfgVars, spanVars, creator>>
     ELSE \E r2 \in OneId :
            \E r1 \in (IF parentTraceID(o) = 0 THEN OneId ELSE {r2}) :
              startSpanGenericVia([op |-> name, ctx |-> ctx, started |-> TRUE],
                                  o, r1, r2)
  /\ UNCHANGED <<wireVars, otherTaskVars>>

\* ForkSpan(ctx, opName)
ForkSpan ==
  \E x \in CtxSpans :
    LET ctx == ContextOf(x) IN
    DerivedSpan("ForkSpan", ctx, ForkSpanOptions(SpanFromContext(ctx)))

\* ChildSpan(ctx, opName)
ChildSpan ==
  \E x \in CtxSpans :
    LET ctx == ContextOf(x) IN
    DerivedSpan("ChildSpan", ctx, ChildSpanOptions(SpanFromContext(ctx)))

\* ChildSpanRemote(ctx, opName)
ChildSpanRemote ==
  \E x \in CtxSpans :
    LET ctx == ContextOf(x) IN
    DerivedSpan("ChildSpanRemote", ctx, ChildSpanRemoteOptions(SpanFromContext(ctx)))

\* The options a caller of EnsureChildSpan may add (os...): WithForceRealSpan
\* and WithBypassRegistry, each present or not.
EnsureChildSpanExtras == [force : BOOLEAN, bypass : BOOLEAN]

\* WithParentAndAutoCollection(SpanFromContext(ctx)) followed by os: the
\* parent is the span of the context, nil when the context holds none.
EnsureChildSpanOptions(sp, os) ==
  [Parent |-> sp, RemoteParent |-> NilMeta, RefType |-> ChildOfRef,
   ForceRealSpan |-> os.force, BypassRegistry |-> os.bypass]

\* EnsureChildSpan with the test of ChildSpan: nothing is started without a
\* span in the context.
EnsureChildSpan_IfPresent ==
  \E x \in CtxSpans, os \in EnsureChildSpanExtras :
    LET ctx == ContextOf(x)
        o   == EnsureChildSpanOptions(SpanFromContext(ctx), os)
        via == [op |-> "EnsureChildSpan", ctx |-> ctx, os |-> os]
    IN  /\ IF SpanFromContext(ctx) = NilSpan
           THEN /\ ret' = via @@ [opts |-> o, panic |-> FALSE, sp |-> NilSpan]
                /\ UNCHANGED <<cfgVars, spanVars, creator>>
           ELSE \E r2 \in OneId :
                  \E r1 \in (IF parentTraceID(o) = 0 THEN OneId ELSE {r2}) :
                    startSpanGenericVia(via, o, r1, r2)
        /\ UNCHANGED <<wireVars, otherTaskVars>>

\* EnsureChildSpan(ctx, tr, name, os...)
EnsureChildSpan ==
  \E x \in CtxSpans, os \in EnsureChildSpanExtras :
    LET ctx == ContextOf(x)
        o   == EnsureChildSpanOptions(SpanFromContext(ctx), os)
        via == [op |-> "EnsureChildSpan", ctx |-> ctx, os |-> os]
    IN  /\ \E r2 \in OneId :
             \E r1 \in (IF parentTraceID(o) = 0 THEN OneId ELSE {r2}) :
               startSpanGenericVia(via, o, r1, r2)
        /\ UNCHANGED <<wireVars, otherTaskVars>>

BaggageKeys == { <<"k">>, verboseTracingBaggageKey }
BaggageVals == { <<"1">>, <<"2">> }

\* Span.SetBaggageItem(key, value): it takes the span's lock.
SetBaggageItem ==
  \E s \in Returned, k \in BaggageKeys, v \in BaggageVals :
    /\ s \notin mu
    /\ spans' = [spans EXCEPT ![s].baggage = (k :> v) @@ @]
    /\ hist' = IF s = ParentInUse THEN hist \cup {spans'[s].baggage} ELSE hist
    /\ ret' = [op |-> "SetBaggageItem", sp |-> s]
    /\ UNCHANGED <<cfgVars, activeSpans, wireVars, closers, visitVars, creator, swapper, mu>>

\* sp.SetVerbose(to) on the span s: the recording type is set, under the
\* span's lock.
setVerbose(s, to) ==
  /\ s \notin mu
  /\ spans' = [spans EXCEPT ![s].recordingType =
                               IF to THEN RecordingVerbose ELSE RecordingOff]

\* Span.SetVerbose(to)
SetVerbose ==
  \E s \in Returned, to \in BOOLEAN :
    /\ setVerbose(s, to)
    /\ ret' = [op |-> "SetVerbose", sp |-> s, to |-> to]
    /\ UNCHANGED <<cfgVars, activeSpans, wireVars, taskVars>>

\* StartVerboseTrace(ctx, tr, opName) up to the return of
\* EnsureChildSpan(ctx, tr, opName, WithForceRealSpan()).
StartVerboseTrace ==
  \E x \in CtxSpans :
    LET ctx == ContextOf(x)
        os  == [force |-> TRUE, bypass |-> FALSE]
        o   == EnsureChildSpanOptions(SpanFromContext(ctx), os)
        via == [op |-> "StartVerboseTrace", ctx |-> ctx, os |-> os,
                after |-> "setVerbose"]
    IN  /\ \E r2 \in OneId :
             \E r1 \in (IF parentTraceID(o) = 0 THEN OneId ELSE {r2}) :
               startSpanGenericVia(via, o, r1, r2)
        /\ UNCHANGED <<wireVars, otherTaskVars>>

\* tr.StartSpanCtx(ctx, opName, WithForceRealSpan())
RecordingSpanOptions ==
  [Parent |-> NilSpan, RemoteParent |-> NilMeta, RefType |-> ChildOfRef,
   ForceRealSpan |-> TRUE, BypassRegistry |-> FALSE]

\* ContextWithRecordingSpan(ctx, opName) up to the return of StartSpanCtx:
\* the tracer is the one the function has just made with NewTracer().
ContextWithRecordingSpan ==
  /\ ret.op = "NewTracer"
  /\ startSpanGenericVia([op |-> "ContextWithRecordingSpan", ctx |-> ContextOf(NilSpan),
                          after |-> "setVerbose"],
                         RecordingSpanOptions, 1, 1)
  /\ UNCHANGED <<wireVars, otherTaskVars>>

\* sp.SetVerbose(true) on the span just started, and the return of
\* StartVerboseTrace or ContextWithRecordingSpan.
CreateSetVerbose ==
  /\ creator.at = "setVerbose"
  /\ setVerbose(creator.res.sp, TRUE)
  /\ creator' = [at |-> "idle"]
  /\ ret' = creator.res
  /\ UNCHANGED <<cfgVars, activeSpans, wireVars, otherTaskVars>>

\* Span.Finish() on the span s: the first call stores the duration d and
\* removes the span from the registry, under the registry's lock; later
\* calls do nothing. via is as in startSpanGenericVia; the field again of
\* the result tells whether the span was finished before the call.
finishSpan(via, s, d) ==
  /\ activeSpansMu = "free"
  /\ IF spans[s].duration >= 0
     THEN UNCHANGED spanVars
     ELSE /\ spans' = [spans EXCEPT ![s].duration = d]
          /\ activeSpans' = activeSpans \ {s}
  /\ ret' = via @@ [op |-> "Finish", sp |-> s, again |-> spans[s].duration >= 0]
  /\ UNCHANGED cfgVars

\* Span.Finish() on any of the spans, after a time that is one of D.
FinishAfter(D) ==
  \E s \in 1..Len(spans), d \in D :
    finishSpan(Direct, s, d) /\ UNCHANGED <<wireVars, taskVars>>

\* Span.Finish()
Finish == FinishAfter(0..MaxDur)

\* The cancel function ContextWithRecordingSpan returned, up to
\* sp.SetVerbose(false): cancelCtx() changes nothing the tracer reads.
Cancel ==
  /\ creator.at = "idle"
  /\ \E s \in 1..Len(spans) :
       /\ spans[s].origin.op = "ContextWithRecordingSpan"
       /\ setVerbose(s, FALSE)
       /\ creator' = [at |-> "cancel.Finish", sp |-> s]
       /\ ret' = [op |-> "SetVerbose", sp |-> s, to |-> FALSE]
  /\ UNCHANGED <<cfgVars, activeSpans, wireVars, otherTaskVars>>

\* sp.Finish() in cancel
CancelFinish ==
  /\ creator.at = "cancel.Finish"
  /\ \E d \in 0..MaxDur : finishSpan([op |-> "cancel.Finish"], creator.sp, d)
  /\ creator' = [at |-> "cancel.Close"]
  /\ UNCHANGED <<wireVars, otherTaskVars>>

\* tr.Close() in cancel, and the return of cancel
CancelClose ==
  /\ creator.at = "cancel.Close"
  /\ SetCfg(setShadowTracer(TracerCfg, NoType))
  /\ creator' = [at |-> "idle"]
  /\ ret' = [op |-> "cancel"]
  /\ UNCHANGED <<sv, nConfigure, spanVars, wireVars, otherTaskVars>>

\* The spans whose recording Finish merged into the recording of s: the
\* finished spans that were linked to s as their local parent.
RecordedChildren(s) ==
  { c \in 1..Len(spans) : spans[c].parent = s /\ spans[c].duration >= 0 }

\* The recording of the span s: its own snapshot and, recursively, those
\* of the spans merged into it.
RECURSIVE Recording(_)
Recording(s) ==
  {s} \cup UNION { Recording(c) : c \in RecordedChildren(s) }

\* Span.GetRecording()
GetRecording ==
  \E s \in 1..Len(spans) :
    /\ ret' = [op |-> "GetRecording", sp |-> s, rec |-> Recording(s)]
    /\ UNCHANGED <<cfgVars, spanVars, wireVars, taskVars>>

\* What a visitor may do with the span it is called with: nothing, start
\* a root span, or finish the span; and what it may return.
VisitorBodies == {"none", "start", "finish"}
VisitorResults == {"nil", "stop", "err"}

\* The root span a visitor starts: StartSpan(name, WithForceRealSpan()).
VisitorRootOptions ==
  [Parent |-> NilSpan, RemoteParent |-> NilMeta, RefType |-> ChildOfRef,
   ForceRealSpan |-> TRUE, BypassRegistry |-> FALSE]

\* An Unlock that is deferred to the return of VisitSpans.
UnlockAfterSnapshot_Deferred == "VisitSpans"

\* t.activeSpans.Unlock() after the copy of the registry: who holds the lock
\* when the loop over the copy starts.
UnlockAfterSnapshot == "free"

\* VisitSpans up to the loop: the registry is copied under its lock. The
\* fields snap and seen are kept for the properties to read: the registry
\* at the time of the copy, and the spans passed to the visitor so far.
VisitSnapshot ==
  /\ visitor.at = "idle"
  /\ activeSpansMu = "free"
  /\ \E sl \in Orders(activeSpans) :
       visitor' = [at |-> "loop", sl |-> sl, i |-> 1, did |-> {}, err |-> "nil",
                   snap |-> activeSpans, seen |-> <<>>, last |-> "nil"]
  /\ activeSpansMu' = UnlockAfterSnapshot
  /\ ret' = [op |-> "VisitSpans.snapshot"]
  /\ UNCHANGED <<cfgVars, spanVars, wireVars, closers, creator, swapper, mu, hist>>

\* VisitCall with a loop over the registry itself instead of the copy: the
\* next span is one that is in the registry now and was not passed yet.
VisitCall_LiveRegistry ==
  /\ visitor.at = "loop" /\ visitor.i <= Len(visitor.sl)
  /\ \E sp \in activeSpans \ { visitor.seen[j] : j \in 1..Len(visitor.seen) } :
       /\ \E body \in VisitorBodies, out \in VisitorResults :
            /\ body = "start" => Len(spans) < MaxSpans
            /\ visitor' = [visitor EXCEPT !.at = "visitor",
                                          !.sl[visitor.i] = sp,
                                          !.seen = Append(@, sp)]
                            @@ [body |-> body, out |-> out]
       /\ ret' = [op |-> "visitor", sp |-> sp]
  /\ UNCHANGED <<cfgVars, spanVars, wireVars, closers, creator, swapper, mu, hist, activeSpansMu>>

\* visitor(sp) is called on the next span of the copy: the visitor is
\* entered, with what it is going to do and to return.
VisitCall ==
  /\ visitor.at = "loop" /\ visitor.i <= Len(visitor.sl)
  /\ \E body \in VisitorBodies, out \in VisitorResults :
       /\ body = "start" => Len(spans) < MaxSpans
       /\ visitor' = [visitor EXCEPT !.at = "visitor",
                                     !.seen = Append(@, visitor.sl[visitor.i])]
                       @@ [body |-> body, out |-> out]
  /\ ret' = [op |-> "visitor", sp |-> visitor.sl[visitor.i]]
  /\ UNCHANGED <<cfgVars, spanVars, wireVars, closers, creator, swapper, mu, hist, activeSpansMu>>

\* AfterVisitor without the test of iterutil.Done: the stop sentinel is
\* returned like any other error.
AfterVisitor_StopIsError(out) ==
  [at  |-> IF out = "nil" THEN "loop" ELSE "done",
   err |-> IF out = "nil" THEN "nil" ELSE "err"]

\* What VisitSpans does with the value out the visitor returned: nil goes
\* on with the loop, the stop sentinel of iterutil ends it with nil, and
\* any other error ends it and is returned.
AfterVisitor(out) ==
  [at  |-> IF out = "nil" THEN "loop" ELSE "done",
   err |-> IF out = "err" THEN "err" ELSE "nil"]

\* The visitor runs and returns: VisitSpans goes on with the next span, or
\* leaves the loop with the error to return. The field last keeps what the
\* visitor returned, for the properties to read.
VisitorRun ==
  /\ visitor.at = "visitor"
  /\ LET via == [op |-> "visitor.return", body |-> visitor.body] IN
     CASE visitor.body = "none" ->
            /\ ret' = via
            /\ UNCHANGED <<cfgVars, spanVars, creator>>
       [] visitor.body = "start" ->
            startSpanGenericVia(via, VisitorRootOptions, 1, 1)
       [] visitor.body = "finish" ->
            finishSpan(via, visitor.sl[visitor.i], 0) /\ UNCHANGED creator
  /\ visitor' =
       [at  |-> AfterVisitor(visitor.out).at,
        sl  |-> visitor.sl,
        i   |-> visitor.i + 1,
        did |-> visitor.did \cup {visitor.body},
        err |-> AfterVisitor(visitor.out).err,
        snap |-> visitor.snap, seen |-> visitor.seen, last |-> visitor.out]
  /\ UNCHANGED <<wireVars, closers, swapper, mu, hist, activeSpansMu>>

\* VisitSpans returns: after the last span, or with the visitor's error.
VisitReturn ==
  /\ \/ visitor.at = "loop" /\ visitor.i > Len(visitor.sl)
     \/ visitor.at = "done"
  /\ ret' = [op |-> "VisitSpans", visits |-> visitor.i - 1, did |-> visitor.did,
             err |-> visitor.err, left |-> visitor.at = "done",
             snap |-> visitor.snap, seen |-> visitor.seen, last |-> visitor.last]
  /\ visitor' = [at |-> "idle"]
  /\ UNCHANGED <<cfgVars, spanVars, wireVars, closers, creator, swapper, mu, hist, activeSpansMu>>

(***************************************************************************)
(* Carriers and the wire codec.                                            *)
(***************************************************************************)
\* The Carrier types: the two the codec supports, and one it does not.
CarrierKinds == {"MapCarrier", "metadataCarrier", "other"}

\* A carrier of the given kind with no entry. m maps a key to the values
\* stored under it, in the order they were set (MapCarrier keeps one value
\* per key); from is what InjectMetaInto put into the carrier while it was
\* empty, if nothing else wrote to it since.
NoInject == [none |-> TRUE]
EmptyCarrier(kind) == [kind |-> kind, m |-> <<>>, from |-> NoInject]

\* MapCarrier.Set: c.Map[key] = val; metadataCarrier.Set lower-cases the
\* key and appends the value to the key's values.
CarrierSetKV(c, k, v) ==
  IF c.kind = "metadataCarrier"
  THEN LET lk == ToLower(k) IN
       [c EXCEPT !.m = (lk :> (IF lk \in DOMAIN c.m THEN Append(c.m[lk], v) ELSE <<v>>)) @@ @]
  ELSE [c EXCEPT !.m = (k :> <<v>>) @@ @]

\* The number of values a carrier holds.
RECURSIVE NumEntries(_, _)
NumEntries(m, ks) ==
  IF ks = {} THEN 0
  ELSE LET k == CHOOSE x \in ks : TRUE IN Len(m[k]) + NumEntries(m, ks \ {k})

\* Carrier.ForEach: the <<key, value>> pairs the callback is called with,
\* when the range over the map yields the keys in the order ord.
RECURSIVE ForEachPairs(_, _)
ForEachPairs(m, ord) ==
  IF ord = <<>> THEN <<>>
  ELSE [i \in 1..Len(m[Head(ord)]) |-> <<Head(ord), m[Head(ord)][i]>>]
         \o ForEachPairs(m, Tail(ord))

\* The type switch on the carrier: whether a serialization format exists.
SupportedCarrier_Any(kind) == TRUE

SupportedCarrier(kind) == kind \in {"MapCarrier", "metadataCarrier"}

\* SpanMeta.isNilOrNoop(): nil, or the SpanMeta that denotes no tracing
\* (trace id 0 and span id 0).
isNilOrNoop(sm) == sm = NilMeta \/ (sm.traceID = 0 /\ sm.spanID = 0)

\* The key a baggage item is written under, with the wrong namespace.
baggageKey_ShadowPrefix(k) == prefixShadow \o k

\* The key a baggage item is written under.
baggageKey(k) == prefixBaggage \o k

\* for k, v := range sm.Baggage { carrier.Set(prefixBaggage+k, v) }
RECURSIVE InjectBaggage(_, _, _)
InjectBaggage(c, b, ks) ==
  IF ks = {} THEN c
  ELSE LET k == CHOOSE x \in ks : TRUE IN
       InjectBaggage(CarrierSetKV(c, baggageKey(k), b[k]), b, ks \ {k})

\* The key under which a backend writes its span context.
shadowIdKey == <<"i","d">>

\* shadowTracer.Inject(ctx, format, writer): the backend writes its context
\* under its own key through the writer, or fails and writes nothing.
ShadowInject(c, ctx, fail) ==
  IF fail THEN [c |-> c, err |-> "backend"]
  ELSE [c |-> CarrierSetKV(c, prefixShadow \o shadowIdKey, ctx), err |-> "nil"]

\* The type of the attached backend; NoType when none is attached
\* (shadowTracer.Type() of a nil tracer).
AttachedType == IF shadowTracer = 0 THEN NoType ELSE handles[shadowTracer].typ

\* The backend's part of InjectMetaInto without the comparison of the types:
\* whatever backend is attached puts the SpanMeta's context on the wire.
InjectShadow_NoTypeCheck(sm, c, fail) ==
  IF getShadowTracer # 0
  THEN ShadowInject(CarrierSetKV(c, fieldNameShadowType, sm.shadowTracerType),
                    sm.shadowCtx, fail)
  ELSE [c |-> c, err |-> "nil"]

\* The backend's part of InjectMetaInto: the type key and the backend's
\* fields, when a backend is attached and is of the SpanMeta's type.
InjectShadow(sm, c, fail) ==
  IF getShadowTracer # 0 /\ sm.shadowTracerType = AttachedType
  THEN ShadowInject(CarrierSetKV(c, fieldNameShadowType, sm.shadowTracerType),
                    sm.shadowCtx, fail)
  ELSE [c |-> c, err |-> "nil"]

\* InjectMetaInto with a fast path for the nil SpanMeta only.
injectMetaInto_NoFastPath(sm, c, fail) ==
  IF sm = NilMeta THEN [c |-> c, err |-> "nil"]
  ELSE IF ~SupportedCarrier(c.kind) THEN [c |-> c, err |-> "unsupported carrier"]
  ELSE LET c1 == CarrierSetKV(c, fieldNameTraceID, FormatUint(sm.traceID))
           c2 == CarrierSetKV(c1, fieldNameSpanID, FormatUint(sm.spanID))
           c3 == InjectBaggage(c2, sm.Baggage, DOMAIN sm.Baggage)
       IN InjectShadow(sm, c3, fail)

\* InjectMetaInto with the type switch on the carrier after the identifiers
\* are written.
injectMetaInto_LateCarrierCheck(sm, c, fail) ==
  IF isNilOrNoop(sm) THEN [c |-> c, err |-> "nil"]
  ELSE LET c1 == CarrierSetKV(c, fieldNameTraceID, FormatUint(sm.traceID))
           c2 == CarrierSetKV(c1, fieldNameSpanID, FormatUint(sm.spanID))
           c3 == InjectBaggage(c2, sm.Baggage, DOMAIN sm.Baggage)
       IN IF ~SupportedCarrier(c.kind) THEN [c |-> c2, err |-> "unsupported carrier"]
          ELSE InjectShadow(sm, c3, fail)

\* Tracer.InjectMetaInto(sm, carrier): the carrier afterwards and the error.
injectMetaInto(sm, c, fail) ==
  IF isNilOrNoop(sm) THEN [c |-> c, err |-> "nil"]
  ELSE IF ~SupportedCarrier(c.kind) THEN [c |-> c, err |-> "unsupported carrier"]
  ELSE LET c1 == CarrierSetKV(c, fieldNameTraceID, FormatUint(sm.traceID))
           c2 == CarrierSetKV(c1, fieldNameSpanID, FormatUint(sm.spanID))
           c3 == InjectBaggage(c2, sm.Baggage, DOMAIN sm.Baggage)
       IN InjectShadow(sm, c3, fail)

\* Locals that do not start at the zero value.
ExtractLocals_NonZero ==
  [traceID |-> 1, spanID |-> 1, shadowType |-> NoType, baggage |-> EmptyMap,
   shadowCarrier |-> EmptyMap, err |-> "nil"]

\* The locals of ExtractMetaFrom before the ForEach.
ExtractLocals ==
  [traceID |-> 0, spanID |-> 0, shadowType |-> NoType, baggage |-> EmptyMap,
   shadowCarrier |-> EmptyMap, err |-> "nil"]

\* The callback ExtractMetaFrom passes to ForEach, on one key and value.
ExtractVisit(a, key, v) ==
  LET k == ToLower(key) IN
  IF k = fieldNameTraceID
  THEN [a EXCEPT !.traceID = ParseUint(v).val,
                 !.err = IF ParseUint(v).ok THEN "nil" ELSE "ErrSpanContextCorrupted"]
  ELSE IF k = fieldNameSpanID
  THEN [a EXCEPT !.spanID = ParseUint(v).val,
                 !.err = IF ParseUint(v).ok THEN "nil" ELSE "ErrSpanContextCorrupted"]
  ELSE IF k = fieldNameShadowType
  THEN [a EXCEPT !.shadowType = v]
  ELSE IF HasPrefix(k, prefixBaggage)
  THEN [a EXCEPT !.baggage = (TrimPrefix(k, prefixBaggage) :> v) @@ @]
  ELSE IF HasPrefix(k, prefixShadow)
  THEN [a EXCEPT !.shadowCarrier = (TrimPrefix(k, prefixShadow) :> v) @@ @]
  ELSE a

\* ForEach with that callback: it stops at the first error.
RECURSIVE ExtractForEach(_, _)
ExtractForEach(pairs, a) ==
  IF pairs = <<>> THEN a
  ELSE LET b == ExtractVisit(a, Head(pairs)[1], Head(pairs)[2]) IN
       IF b.err # "nil" THEN b ELSE ExtractForEach(Tail(pairs), b)

\* shadowTracer.Extract(format, shadowCarrier): the context the backend
\* wrote, or an error (also when its key is missing).
ShadowExtract(sc, fail) ==
  IF fail \/ shadowIdKey \notin DOMAIN sc
  THEN [ok |-> FALSE, ctx |-> NilCtx]
  ELSE [ok |-> TRUE, ctx |-> sc[shadowIdKey]]

\* An error return that hands back what was decoded so far.
ExtractFails_Partial(a, err) ==
  [meta |-> [traceID |-> a.traceID, spanID |-> a.spanID, shadowTracerType |-> a.shadowType,
             shadowCtx |-> NilCtx, recordingType |-> RecordingOff, Baggage |-> a.baggage],
   err |-> err]

\* The error returns of ExtractMetaFrom after the ForEach.
ExtractFails(a, err) == [meta |-> noopSpanMeta, err |-> err]

\* The backend's part of ExtractMetaFrom without the comparison of the
\* types: a type on the wire is handed to whatever backend there is.
ExtractShadow_NoTypeCheck(a, fail) ==
  IF a.shadowType = NoType
  THEN [typ |-> NoType, ctx |-> NilCtx, called |-> FALSE, ok |-> TRUE]
  ELSE LET x == ShadowExtract(a.shadowCarrier, fail) IN
       [typ |-> a.shadowType, ctx |-> x.ctx, called |-> TRUE, ok |-> x.ok]

\* The backend's part of ExtractMetaFrom: the type and the context of the
\* SpanMeta, whether the backend's Extract was called, and whether it
\* succeeded.
ExtractShadow(a, fail) ==
  IF a.shadowType = NoType
  THEN [typ |-> NoType, ctx |-> NilCtx, called |-> FALSE, ok |-> TRUE]
  ELSE IF a.shadowType # AttachedType
  THEN [typ |-> NoType, ctx |-> NilCtx, called |-> FALSE, ok |-> TRUE]
  ELSE LET x == ShadowExtract(a.shadowCarrier, fail) IN
       [typ |-> a.shadowType, ctx |-> x.ctx, called |-> TRUE, ok |-> x.ok]

\* Tracer.ExtractMetaFrom(carrier): the SpanMeta and the error, and whether
\* the backend's Extract was called, and whether it was called and failed.
extractMetaFrom(c, ord, fail) ==
  IF ~SupportedCarrier(c.kind)
  THEN [meta |-> noopSpanMeta, err |-> "unsupported carrier",
        beCalled |-> FALSE, beFailed |-> FALSE]
  ELSE
    LET a == ExtractForEach(ForEachPairs(c.m, ord), ExtractLocals)
        rec == IF verboseTracingBaggageKey \in DOMAIN a.baggage
                  /\ a.baggage[verboseTracingBaggageKey] # <<>>
               THEN RecordingVerbose ELSE RecordingOff
        x == ExtractShadow(a, fail)
    IN IF a.err # "nil"
       THEN ExtractFails(a, a.err) @@ [beCalled |-> FALSE, beFailed |-> FALSE]
       ELSE IF a.traceID = 0 /\ a.spanID = 0
       THEN [meta |-> noopSpanMeta, err |-> "nil", beCalled |-> FALSE, beFailed |-> FALSE]
       ELSE IF ~x.ok
       THEN ExtractFails(a, "backend") @@ [beCalled |-> TRUE, beFailed |-> TRUE]
       ELSE [meta |-> [traceID |-> a.traceID, spanID |-> a.spanID,
                       shadowTracerType |-> x.typ, shadowCtx |-> x.ctx,
                       recordingType |-> rec, Baggage |-> a.baggage],
             err |-> "nil", beCalled |-> x.called, beFailed |-> FALSE]

\* The SpanMeta values InjectMetaInto is called with.
InjectIds == { <<0, 0>>, <<1, 0>>, <<MaxUint, 16>> }
InjectBaggages == { EmptyMap, (<<"k">> :> <<"1">>), (<<"K">> :> <<"1">>) }
InjectShadows ==
  { <<NoType, NilCtx>>, <<zipkinType, SomeCtx>>, <<lightstepType, SomeCtx>> }
InjectMetas ==
  {NilMeta} \cup
  { [traceID |-> i[1], spanID |-> i[2], shadowTracerType |-> s[1], shadowCtx |-> s[2],
     recordingType |-> RecordingOff, Baggage |-> b] :
      i \in InjectIds, b \in InjectBaggages, s \in InjectShadows }

\* The keys and values a peer may put into a carrier.
PeerKeys ==
  { fieldNameTraceID,
    prefixTracerState \o <<"S","p","a","n","I","D">>,
    fieldNameShadowType,
    prefixShadow \o shadowIdKey,
    baggageKey(<<"k">>),
    <<"x">> }
PeerVals == { <<"1">>, <<"z">>, <<"1","0","0">>, zipkinType, lightstepType }

\* A new, empty carrier of some kind replaces the one in use.
NewCarrier ==
  \E kind \in CarrierKinds :
    /\ carrier' = EmptyCarrier(kind)
    /\ ret' = [op |-> "NewCarrier"]
    /\ UNCHANGED <<cfgVars, spanVars, taskVars>>

\* carrier.Set(k, v), called by a peer.
CarrierSet ==
  \E k \in PeerKeys, v \in PeerVals :
    /\ NumEntries(carrier.m, DOMAIN carrier.m) < MaxCarrier
    /\ carrier' = [CarrierSetKV(carrier, k, v) EXCEPT !.from = NoInject]
    /\ ret' = [op |-> "CarrierSet"]
    /\ UNCHANGED <<cfgVars, spanVars, taskVars>>

\* Tracer.InjectMetaInto(sm, carrier)
InjectMetaInto ==
  \E sm \in InjectMetas, fail \in BOOLEAN :
    LET r == injectMetaInto(sm, carrier, fail) IN
    \* a metadataCarrier grows with every call: the calls stop at the bound
    /\ NumEntries(carrier.m, DOMAIN carrier.m) < MaxCarrier
    \* the backend can fail only when it is called
    /\ fail => r.err = "backend"
    /\ carrier' = [r.c EXCEPT !.from =
                     IF carrier.m = <<>> /\ carrier.from = NoInject
                     THEN [sm |-> sm, typ |-> AttachedType, err |-> r.err]
                     ELSE NoInject]
    /\ ret' = [op |-> "InjectMetaInto", sm |-> sm, kind |-> carrier.kind,
               err |-> r.err, wrote |-> r.c.m # carrier.m,
               \* the keys Set was called with, as the carrier stores them
               keys |-> DOMAIN injectMetaInto(sm, EmptyCarrier(carrier.kind), fail).c.m]
    /\ UNCHANGED <<cfgVars, spanVars, taskVars>>

\* Tracer.ExtractMetaFrom(carrier)
ExtractMetaFrom ==
  \E ord \in Orders(DOMAIN carrier.m), fail \in BOOLEAN :
    \* the backend can fail only when it is called
    /\ fail => extractMetaFrom(carrier, ord, fail).beFailed
    /\ ret' = [op |-> "ExtractMetaFrom", kind |-> carrier.kind, c |-> carrier.m]
                @@ extractMetaFrom(carrier, ord, fail)
    /\ UNCHANGED <<cfgVars, spanVars, wireVars, taskVars>>

(***************************************************************************)
(* Tasks inside the tracer: startSpanGeneric and setShadowTracer, one      *)
(* shared-memory access at a time.                                         *)
(***************************************************************************)
\* The options a task calls StartSpanCtx with: a local parent or none, and
\* the invalid reference type.
TaskOptions ==
  { o \in SpanOptions :
      /\ o.RemoteParent = NilMeta /\ o.RefType # FollowsFromRef
      /\ ~o.ForceRealSpan /\ ~o.BypassRegistry }

\* startSpanGeneric up to the load of the shadow tracer: the two checks, the
\* test that returns the noopSpan, and shadowTr := t.getShadowTracer().
CreateBegin ==
  \E o \in TaskOptions :
    /\ creator.at = "idle"
    /\ IF OptsPanic(o)
       THEN /\ ret' = [op |-> "StartSpanCtx", opts |-> o, panic |-> TRUE, sp |-> NilSpan]
            /\ UNCHANGED <<creator, hist>>
       ELSE IF ReturnsNoop(o)
       THEN /\ ret' = [op |-> "StartSpanCtx", opts |-> o, panic |-> FALSE, sp |-> noopSpan]
            /\ UNCHANGED <<creator, hist>>
       ELSE /\ Len(spans) < MaxSpans
            /\ creator' = [at |-> "loaded", o |-> o, shadowTr |-> getShadowTracer]
            /\ hist' = IF o.Parent # NilSpan /\ ~isNoop(o.Parent)
                       THEN {spans[o.Parent].baggage} ELSE {}
            /\ ret' = [op |-> "getShadowTracer"]
    /\ UNCHANGED <<cfgVars, spanVars, wireVars, closers, visitVars, swapper, mu>>

\* makeShadowSpan(shadowTr, ...), when the types allow it: the sub-span is
\* created on the handle loaded before.
CreateMakeShadow ==
  /\ creator.at = "loaded"
  /\ creator' = [creator EXCEPT !.at = "made"]
  /\ ret' = IF ShadowFor(creator.o, creator.shadowTr) # 0
            THEN [op |-> "makeShadowSpan", handle |-> creator.shadowTr,
                  closed |-> handles[creator.shadowTr].closed]
            ELSE [op |-> "noShadowSpan"]
  /\ UNCHANGED <<cfgVars, spanVars, wireVars, closers, visitVars, swapper, mu, hist>>

\* The span is allocated. With no real local parent the span is put into
\* the registry, under the registry's lock, and the call returns, or goes
\* on to copy the remote parent's baggage.
CreateAlloc ==
  /\ creator.at = "made"
  /\ LET o   == creator.o
         s   == Len(spans) + 1
         sp  == NewSpan(o, creator.shadowTr, useNetTrace, 1, 1)
         res == [op |-> "StartSpanCtx", opts |-> o, panic |-> FALSE, sp |-> s]
     IN IF o.Parent # NilSpan /\ ~isNoop(o.Parent)
        THEN /\ spans' = Append(spans, sp)
             /\ creator' = [creator EXCEPT !.at = "lock"]
             /\ ret' = [op |-> "alloc"]
             /\ UNCHANGED activeSpans
        ELSE \* t.activeSpans.Lock() blocks while the lock is held
             /\ Registers(o) => activeSpansMu = "free"
             /\ activeSpans' = IF Registers(o) THEN activeSpans \cup {s} ELSE activeSpans
             /\ IF CopiesRemoteBaggage(o)
                THEN /\ spans' = Append(spans, sp)
                     /\ \E ord \in Orders(DOMAIN o.RemoteParent.Baggage) :
                          creator' = [at |-> "remote", o |-> o, keys |-> ord, res |-> res]
                     /\ ret' = [op |-> "register", sp |-> s]
                ELSE /\ spans' = Append(spans, [sp EXCEPT !.baggage = InitialBaggage(o)])
                     /\ Return(res)
  /\ UNCHANGED <<cfgVars, wireVars, closers, visitVars, swapper, mu, hist>>

\* The locks held after a failure to take the parent's lock.
LockParent_NoLock(p) == mu

\* The locks held after opts.Parent.crdb.mu.Lock().
LockParent(p) == mu \cup {p}

\* opts.Parent.crdb.mu.Lock(); m := opts.Parent.crdb.mu.baggage, and the
\* order in which the range over m will yield its keys.
CreateLock ==
  /\ creator.at = "lock"
  /\ creator.o.Parent \notin mu
  /\ mu' = LockParent(creator.o.Parent)
  /\ \E ord \in Orders(DOMAIN spans[creator.o.Parent].baggage) :
       creator' = [creator EXCEPT !.at = "copy"] @@ [keys |-> ord]
  /\ ret' = [op |-> "Lock"]
  /\ UNCHANGED <<cfgVars, spanVars, wireVars, closers, visitVars, swapper, hist>>

\* One turn of the loop: s.SetBaggageItem(k, v) with the parent's k and v.
\* The result tells whether the item was mirrored into the backend sub-span
\* of the new span, and which span locks were held during the call.
CreateCopy ==
  /\ creator.at = "copy" /\ creator.keys # <<>>
  /\ LET k == Head(creator.keys)
         s == Len(spans)
     IN spans' = [spans EXCEPT ![s].baggage =
                     (k :> spans[creator.o.Parent].baggage[k]) @@ @]
  /\ creator' = [creator EXCEPT !.keys = Tail(@)]
  /\ ret' = [op |-> "copy", mirrored |-> spans[Len(spans)].shadow # 0, held |-> mu]
  /\ UNCHANGED <<cfgVars, activeSpans, wireVars, closers, visitVars, swapper, mu, hist>>

\* opts.Parent.crdb.mu.Unlock() and the return of the new span.
CreateUnlock ==
  /\ creator.at = "copy" /\ creator.keys = <<>>
  /\ mu' = mu \ {creator.o.Parent}
  /\ creator' = [at |-> "idle"]
  /\ hist' = {}
  /\ ret' = [op |-> "StartSpanCtx", opts |-> creator.o, panic |-> FALSE, sp |-> Len(spans)]
  /\ UNCHANGED <<cfgVars, spanVars, wireVars, closers, visitVars, swapper>>

\* One turn of the loop over opts.RemoteParent.Baggage, which runs after the
\* registry was unlocked: s.SetBaggageItem(k, v), which takes the new span's
\* lock. After the last turn the call returns the span.
CreateRemoteCopy ==
  /\ creator.at = "remote"
  /\ Len(spans) \notin mu
  /\ LET k    == Head(creator.keys)
         s    == Len(spans)
         rest == Tail(creator.keys)
     IN /\ spans' = [spans EXCEPT ![s].baggage =
                        (k :> creator.o.RemoteParent.Baggage[k]) @@ @]
        /\ IF rest = <<>>
           THEN Return(creator.res)
           ELSE /\ creator' = [creator EXCEPT !.keys = rest]
                /\ ret' = [op |-> "SetBaggageItem", sp |-> s]
  /\ UNCHANGED <<cfgVars, activeSpans, wireVars, otherTaskVars>>

\* A change of trace.zipkin.collector runs reconfigure up to the swap in
\* setShadowTracer.
ReconfigureSwap ==
  \E v \in Addrs :
    LET s == [sv EXCEPT !.zipkin = v]
        c == swapShadowTracer([TracerCfg EXCEPT !.mode = s.mode], BackendOf(s))
    IN /\ swapper.at = "idle" /\ v # sv.zipkin /\ nConfigure = 1
       /\ Len(handles) + HandlesNeeded(s, 1) <= MaxHandles
       /\ sv' = s
       /\ SetCfg(c)
       /\ swapper' = [at |-> "swapped", old |-> shadowTracer,
                      nt |-> IF s.netTrace THEN 1 ELSE 0]
       /\ ret' = [op |-> "SwapPointer"]
       /\ UNCHANGED <<nConfigure, spanVars, wireVars, closers, visitVars, creator, mu, hist>>

\* Tracer.Close() up to the swap in setShadowTracer.
CloseSwap ==
  /\ swapper.at = "idle"
  /\ SetCfg(swapShadowTracer(TracerCfg, NoType))
  /\ swapper' = [at |-> "swapped", old |-> shadowTracer, nt |-> _useNetTrace]
  /\ ret' = [op |-> "SwapPointer"]
  /\ UNCHANGED <<sv, nConfigure, spanVars, wireVars, closers, visitVars, creator, mu, hist>>

\* The rest of setShadowTracer and of its caller: Close() on the old
\* handle, then the store of _useNetTrace.
SwapCloseOld ==
  /\ swapper.at = "swapped"
  /\ handles' = closeShadowTracer(handles, swapper.old)
  /\ _useNetTrace' = swapper.nt
  /\ swapper' = [at |-> "idle"]
  /\ ret' = [op |-> "CloseOld", handle |-> swapper.old]
  /\ UNCHANGED <<sv, nConfigure, _mode, shadowTracer, spanVars, wireVars, closers, visitVars, creator, mu, hist>>

\* Tracer.Close() in the task i, up to the swap in setShadowTracer.
CloserSwap ==
  \E i \in 1..MaxClosers :
    /\ closers[i].at = "idle"
    /\ SetCfg(swapShadowTracer(TracerCfg, NoType))
    /\ closers' = [closers EXCEPT ![i] = [at |-> "swapped", old |-> shadowTracer]]
    /\ ret' = [op |-> "SwapPointer"]
    /\ UNCHANGED <<sv, nConfigure, spanVars, wireVars, visitVars, creator, swapper, mu, hist>>

\* The rest of setShadowTracer in the task i: Close() on the old handle.
CloserCloseOld ==
  \E i \in 1..MaxClosers :
    /\ closers[i].at = "swapped"
    /\ handles' = closeShadowTracer(handles, closers[i].old)
    /\ closers' = [closers EXCEPT ![i] = [at |-> "idle"]]
    /\ ret' = [op |-> "CloseOld", handle |-> closers[i].old]
    /\ UNCHANGED <<sv, nConfigure, _mode, _useNetTrace, shadowTracer, spanVars, wireVars,
                   visitVars, creator, swapper, mu, hist>>

(***************************************************************************)
(* The tracer: construction, configuration and spans, one call at a time.  *)
(***************************************************************************)
\* No carrier is in use and no task is inside the tracer.
Quiescent ==
  /\ carrier = EmptyCarrier("MapCarrier")
  /\ creator = [at |-> "idle"]
  /\ swapper = [at |-> "idle"]
  /\ closers = [i \in 1..MaxClosers |-> [at |-> "idle"]]
  /\ mu = {}
  /\ hist = {}
  /\ visitor = [at |-> "idle"]
  /\ activeSpansMu = "free"

\* NewTracer(), with the settings at any of their values.
NewTracer ==
  /\ Quiescent
  /\ sv \in SettingsValues
  /\ nConfigure = 0
  /\ _mode = modeLegacy
  /\ _useNetTrace = 0
  /\ shadowTracer = 0
  /\ handles = <<>>
  /\ activeSpans = {}
  /\ spans = <<>>
  /\ ret = [op |-> "NewTracer"]

\* The cells of a new Tracer.
NewCfg == [mode |-> modeLegacy, nt |-> 0, shadow |-> 0, handles |-> <<>>]

\* NewTracer() followed by Configure(sv), with the settings at any of their
\* values: where the span operations start from.
Init ==
  /\ Quiescent
  /\ sv \in SettingsValues
  /\ nConfigure = 1
  /\ _mode = reconfigure(NewCfg, sv).mode
  /\ _useNetTrace = reconfigure(NewCfg, sv).nt
  /\ shadowTracer = reconfigure(NewCfg, sv).shadow
  /\ handles = reconfigure(NewCfg, sv).handles
  /\ activeSpans = {}
  /\ spans = <<>>
  /\ ret = [op |-> "Configure"]

vars == <<sv, nConfigure, _mode, _useNetTrace, shadowTracer, handles,
          activeSpans, spans, ret, carrier, creator, swapper, closers, mu, hist,
          visitor, activeSpansMu>>

\* Span creation: which span a call returns. A parent that records is one
\* started under a remote parent that records.
Next ==
  \/ StartSpanCtx(DecisionOptions, OneId)
  \/ CreateRemoteCopy

Spec == Init /\ [][Next]_vars

\* Span creation with every draw of the identifiers.
NextIds ==
  \/ StartSpanCtx(DecisionOptions, IdDraws)
  \/ CreateRemoteCopy

\* A tracer configured with no backend and no debug sink, in either mode.
InitBare == Init /\ ~sv.netTrace /\ sv.lsToken = "" /\ sv.zipkin = ""

SpecIds == InitBare /\ [][NextIds]_vars

\* The registry of active root spans: start and finish.
NextReg ==
  \/ StartSpanCtx(RegistryOptions, OneId)
  \/ Finish

\* The registry and its visits: spans are started and finished while
\* VisitSpans runs, one step at a time, with a visitor that starts root
\* spans and finishes the spans it visits. The registry does not depend on
\* the durations: every Finish stores the same one.
NextRegVisit ==
  \/ StartSpanCtx(RegistryOptions, OneId)
  \/ FinishAfter({0})
  \/ VisitSnapshot
  \/ VisitCall
  \/ VisitorRun
  \/ VisitReturn

\* The registry depends neither on the backend nor on the debug sink: the
\* tracer is configured with neither, in either mode.
SpecReg == InitBare /\ [][NextReg]_vars

SpecRegVisit == InitBare /\ [][NextRegVisit]_vars

\* Configuration alone: Configure, changes of the settings, Close.
NextCfg ==
  \/ Configure
  \/ SetMode
  \/ SetNetTrace
  \/ SetLightstepToken
  \/ SetZipkinCollector
  \/ Close

SpecCfg == NewTracer /\ [][NextCfg]_vars

\* The callers that start root spans, with and without WithForceRealSpan.
RootOptions ==
  { o \in SpanOptions :
      /\ o.Parent = NilSpan /\ o.RemoteParent = NilMeta
      /\ o.RefType = ChildOfRef /\ ~o.BypassRegistry }

\* The spans derived from the span of a context: roots are started, some
\* of them finished, and ForkSpan, ChildSpan and ChildSpanRemote are called
\* on contexts that hold no span, the noopSpan or one of the spans.
NextDerived ==
  \/ StartSpanCtx(RootOptions, OneId)
  \/ Finish
  \/ ForkSpan
  \/ ChildSpan
  \/ ChildSpanRemote

\* The derived spans read the configuration as StartSpanCtx does: the
\* tracer starts in either mode, with a Zipkin backend or with none.
InitDerived == Init /\ ~sv.netTrace /\ sv.lsToken = ""

SpecDerived == InitDerived /\ [][NextDerived]_vars

\* VisitSpans one step at a time, with a visitor that starts root spans and
\* finishes the spans it visits, while other tasks start and finish roots.
NextVisit ==
  \/ StartSpanCtx(RootOptions, OneId)
  \/ Finish
  \/ VisitSnapshot
  \/ VisitCall
  \/ VisitorRun
  \/ VisitReturn

SpecVisit == InitBare /\ [][NextVisit]_vars

\* The wire codec on the carriers of this tracer: carriers filled by
\* InjectMetaInto and decoded by ExtractMetaFrom, while the backend may be
\* replaced by one of the other type or detached.
NextCodec ==
  \/ NewCarrier
  \/ InjectMetaInto
  \/ ExtractMetaFrom
  \/ SetZipkinCollector
  \/ SetLightstepToken

\* The codec reads neither the mode nor the debug-sink flag, and of the
\* backend only its type: the tracer starts with Lightstep, with Zipkin or
\* with no backend.
InitCodec == Init /\ sv.mode = modeLegacy /\ ~sv.netTrace

SpecCodec == InitCodec /\ [][NextCodec]_vars

\* The decoder on the carriers of a peer: carriers filled one entry at a
\* time with any keys and values, and decoded by ExtractMetaFrom, while
\* the Lightstep token is set and cleared: the backend goes from Zipkin or
\* none to Lightstep and back.
NextPeer ==
  \/ NewCarrier
  \/ CarrierSet
  \/ ExtractMetaFrom
  \/ SetLightstepToken

SpecPeer == InitCodec /\ [][NextPeer]_vars

\* StartVerboseTrace on contexts that hold no span, the noopSpan or one of
\* the spans, while the spans are finished and their verbosity is set.
NextVerbose ==
  \/ StartVerboseTrace
  \/ CreateSetVerbose
  \/ SetVerbose
  \/ Finish

SpecVerbose == InitDerived /\ [][NextVerbose]_vars

\* ContextWithRecordingSpan on its own tracer, which is never configured:
\* the span is started and made verbose, its recording is read, and cancel
\* is called.
NextRecorder ==
  \/ ContextWithRecordingSpan
  \/ CreateSetVerbose
  \/ GetRecording
  \/ Cancel
  \/ CancelFinish
  \/ CancelClose

SpecRecorder == NewTracer /\ [][NextRecorder]_vars

\* Tasks interleaved: one creating spans, one setting baggage, one
\* replacing the backend.
NextConc ==
  \/ CreateBegin
  \/ CreateMakeShadow
  \/ CreateAlloc
  \/ CreateLock
  \/ CreateCopy
  \/ CreateUnlock
  \/ SetBaggageItem
  \/ ReconfigureSwap
  \/ CloseSwap
  \/ SwapCloseOld

\* The tracer is configured in Background mode (every span is real), with
\* Zipkin or with no backend.
InitConc == Init /\ sv.mode = modeBackground /\ ~sv.netTrace /\ sv.lsToken = ""

SpecConc == InitConc /\ [][NextConc]_vars

\* Two tasks on the spans' baggage: one creating spans, one setting items.
NextBaggage ==
  \/ CreateBegin
  \/ CreateMakeShadow
  \/ CreateAlloc
  \/ CreateLock
  \/ CreateCopy
  \/ CreateUnlock
  \/ SetBaggageItem

\* The baggage depends neither on the backend nor on the debug sink: the
\* tracer is configured with neither, in Background mode (every span is
\* real).
InitBaggage == InitBare /\ sv.mode = modeBackground

SpecBaggage == InitBaggage /\ [][NextBaggage]_vars

(***************************************************************************)
(* Properties of span creation and of the registry (Spec).                 *)
(***************************************************************************)
RealSpans == 1..Len(spans)

\* The conditions of C1, read from the tracer's cells and the options.
C1_Conditions(o) ==
  \/ _mode = modeBackground
  \/ shadowTracer # 0
  \/ _useNetTrace # 0
  \/ o.ForceRealSpan
  \/ o.RemoteParent # NilMeta /\ o.RemoteParent.recordingType # RecordingOff
  \/ o.Parent \in RealSpans /\ spans[o.Parent].recordingType # RecordingOff

\* C1: a call of StartSpanCtx with valid options (it does not panic) returns
\* a real span if and only if the mode is Background, or a backend is
\* attached, or the debug sink is enabled, or the caller forced a real span,
\* or recording is requested by the remote parent, or the local parent is
\* real and recording; otherwise it returns the tracer's noopSpan.
C1_RealIffConditions ==
  (ret.op = "StartSpanCtx" /\ ~ret.panic) =>
    /\ (ret.sp # noopSpan) <=> C1_Conditions(ret.opts)
    /\ ret.sp = noopSpan \/ ret.sp = Len(spans)

\* A real span was returned in Legacy mode with no backend and no debug
\* sink, to a caller whose local parent is real and recording.
C1_Witness ==
  /\ ret.op = "StartSpanCtx" /\ ret.sp \in RealSpans
  /\ _mode = modeLegacy /\ shadowTracer = 0 /\ _useNetTrace = 0
  /\ spans[ret.sp].parent \in RealSpans
  /\ spans[spans[ret.sp].parent].recordingType = RecordingVerbose

\* C2: every real span has traceID # 0 and spanID # 0 (the noopSpan has no
\* record: both read as 0).
C2_IdsNonZero ==
  \A s \in RealSpans : spans[s].traceID # 0 /\ spans[s].spanID # 0

\* The unfinished spans started with no local parent and without the
\* bypass-registry option.
UnfinishedRoots ==
  { s \in RealSpans :
      spans[s].parent = NilSpan /\ ~spans[s].bypass /\ spans[s].duration < 0 }

Range(q) == { q[i] : i \in 1..Len(q) }

\* C4: the registry holds exactly the unfinished root spans started
\* without the bypass-registry option; VisitSpans copies exactly these,
\* each once; and a VisitSpans whose visitor returns nil on every span has
\* invoked the visitor on exactly the spans of its copy, each exactly once.
C4_VisitsUnfinishedRoots ==
  /\ activeSpans = UnfinishedRoots
  /\ ret.op = "VisitSpans.snapshot" =>
       /\ visitor.snap = UnfinishedRoots
       /\ Range(visitor.sl) = UnfinishedRoots
       /\ Len(visitor.sl) = Cardinality(UnfinishedRoots)
  /\ (ret.op = "VisitSpans" /\ ~ret.left) =>
       /\ Range(ret.seen) = ret.snap
       /\ Len(ret.seen) = Cardinality(ret.snap)

\* Two roots were started, one was finished, and a VisitSpans whose visitor
\* did nothing visited the other, which is still the one unfinished root.
C4_Witness ==
  /\ ret.op = "VisitSpans" /\ ~ret.left /\ ret.did = {"none"}
  /\ Len(ret.seen) = 1 /\ Range(ret.seen) = UnfinishedRoots
  /\ \E s \in RealSpans :
       spans[s].parent = NilSpan /\ ~spans[s].bypass /\ spans[s].duration >= 0

\* C8: with no backend, the debug sink disabled, Legacy mode, no forced real
\* span and no recording carried by the options (no recording parent, local
\* or remote), StartSpanCtx returns the tracer's noopSpan, allocates no span
\* record or sub-span, and leaves the registry unchanged.
C8_NoopFastPath ==
  [][( /\ ret'.op = "StartSpanCtx" /\ ~ret'.panic
       /\ _mode = modeLegacy /\ shadowTracer = 0 /\ _useNetTrace = 0
       /\ ~ret'.opts.ForceRealSpan
       /\ ~( /\ ret'.opts.RemoteParent # NilMeta
             /\ ret'.opts.RemoteParent.recordingType # RecordingOff )
       /\ ~( /\ ret'.opts.Parent \in RealSpans
             /\ spans[ret'.opts.Parent].recordingType # RecordingOff ) )
     => /\ ret'.sp = noopSpan
        /\ spans' = spans
        /\ activeSpans' = activeSpans
        /\ handles' = handles]_vars

\* The noopSpan was returned, in Legacy mode with no backend and no debug
\* sink, to a caller that passed a real local parent, while a root span is
\* registered.
C8_Witness ==
  /\ ret.op = "StartSpanCtx" /\ ret.sp = noopSpan
  /\ _mode = modeLegacy /\ shadowTracer = 0 /\ _useNetTrace = 0
  /\ ret.opts.Parent \in RealSpans
  /\ activeSpans # {}

(***************************************************************************)
(* Properties of the configuration (SpecCfg).                              *)
(***************************************************************************)
\* C6: once Configure has been called, after a change of any setting the
\* tracer's mode, debug-sink flag and backend are those of the settings.
C6_TracksEverySetting ==
  (nConfigure > 0 /\ ret.op = "SetSetting") =>
    /\ _mode = sv.mode
    /\ (_useNetTrace # 0) = sv.netTrace
    /\ AttachedType = BackendOf(sv)

(***************************************************************************)
(* Properties of the wire codec (SpecCodec, SpecPeer).                     *)
(***************************************************************************)
\* ExtractMetaFrom has just decoded a carrier of a supported kind that was
\* empty when InjectMetaInto encoded a SpanMeta with nonzero ids into it,
\* and neither call returned an error.
RoundTripDone ==
  /\ ret.op = "ExtractMetaFrom" /\ ret.err = "nil"
  /\ carrier.kind \in {"MapCarrier", "metadataCarrier"}
  /\ carrier.from # NoInject /\ carrier.from.err = "nil"
  /\ carrier.from.sm # NilMeta
  /\ carrier.from.sm.traceID # 0 /\ carrier.from.sm.spanID # 0

\* The decoded SpanMeta equals the encoded one in trace id, span id and
\* baggage, and carries a backend type and context only if they are the
\* encoded ones and the backend type is the same as at encoding time.
RoundTripEqual ==
  /\ ret.meta.traceID = carrier.from.sm.traceID
  /\ ret.meta.spanID = carrier.from.sm.spanID
  /\ DOMAIN ret.meta.Baggage = DOMAIN carrier.from.sm.Baggage
  /\ \A k \in DOMAIN ret.meta.Baggage : ret.meta.Baggage[k] = carrier.from.sm.Baggage[k]
  /\ ret.meta.shadowTracerType # NoType =>
        /\ AttachedType = carrier.from.typ
        /\ ret.meta.shadowTracerType = carrier.from.sm.shadowTracerType
        /\ ret.meta.shadowCtx = carrier.from.sm.shadowCtx

\* C3, as claimed: for every SpanMeta with nonzero ids and every baggage
\* map, InjectMetaInto into an empty carrier of a supported kind followed by
\* ExtractMetaFrom returns the same trace id, span id and baggage, and the
\* backend type and context only when the backend type at extract time is
\* the one at inject time.
C3_RoundTrip == RoundTripDone => RoundTripEqual

\* C3, amended: the round trip returns the same trace id, span id and
\* baggage for every baggage map whose keys are unchanged by lower-casing.
C3_RoundTripLowerKeys ==
  (RoundTripDone /\ \A k \in DOMAIN carrier.from.sm.Baggage : ToLower(k) = k)
    => RoundTripEqual

\* A round trip through a metadataCarrier returned the largest ids, a
\* baggage item and the backend context.
C3_Witness ==
  /\ RoundTripDone
  /\ carrier.kind = "metadataCarrier"
  /\ ret.meta.traceID = MaxUint
  /\ DOMAIN ret.meta.Baggage = { <<"k">> }
  /\ ret.meta.shadowTracerType = zipkinType
  /\ ret.meta.shadowCtx = SomeCtx

\* C9, as claimed: InjectMetaInto returns an error whenever the carrier is
\* of an unrecognized type, for every SpanMeta.
C9_ErrorOnUnrecognized ==
  (ret.op = "InjectMetaInto" /\ ret.kind \notin {"MapCarrier", "metadataCarrier"})
    => ret.err # "nil"

\* C9, amended: on a carrier of an unrecognized type InjectMetaInto returns
\* an error, and writes nothing, for every SpanMeta that is not nil and has
\* a nonzero trace id or span id; for a nil SpanMeta and for one with both
\* ids zero it returns no error and writes nothing.
C9_ErrorUnlessNoop ==
  (ret.op = "InjectMetaInto" /\ ret.kind \notin {"MapCarrier", "metadataCarrier"}) =>
    /\ ~ret.wrote
    /\ IF ret.sm = NilMeta THEN ret.err = "nil"
       ELSE IF ret.sm.traceID = 0 /\ ret.sm.spanID = 0 THEN ret.err = "nil"
       ELSE ret.err = "unsupported carrier"

\* InjectMetaInto returned the error for a SpanMeta with nonzero ids.
C9_Witness ==
  /\ ret.op = "InjectMetaInto" /\ ret.kind = "other"
  /\ ret.sm # NilMeta /\ ret.sm.traceID = MaxUint
  /\ ret.err = "unsupported carrier"

\* The carrier holds a trace id or span id value that is not hexadecimal
\* text of an unsigned integer in range.
HasMalformedId ==
  \E k \in DOMAIN carrier.m :
    /\ ToLower(k) \in {fieldNameTraceID, fieldNameSpanID}
    /\ \E i \in 1..Len(carrier.m[k]) : ~ParseUint(carrier.m[k][i]).ok

\* C10: ExtractMetaFrom returns an error when the carrier type is
\* unrecognized, when a trace id or span id value is malformed, and when
\* the backend's extract fails; whenever it returns an error, the SpanMeta
\* it returns is noopSpanMeta.
C10_ErrorsReturnNoopMeta ==
  ret.op = "ExtractMetaFrom" =>
    /\ ret.kind \notin {"MapCarrier", "metadataCarrier"} => ret.err # "nil"
    /\ (ret.kind \in {"MapCarrier", "metadataCarrier"} /\ HasMalformedId) => ret.err # "nil"
    /\ ret.beFailed => ret.err # "nil"
    /\ ret.err # "nil" => ret.meta = noopSpanMeta

\* The backend's extract failed after a trace id had been decoded from a
\* peer's carrier that holds the type of the attached backend.
C10_Witness ==
  /\ ret.op = "ExtractMetaFrom" /\ ret.beFailed /\ ret.err = "backend"
  /\ ret.meta = noopSpanMeta
  /\ shadowTracer # 0
  /\ fieldNameTraceID \in DOMAIN ret.c /\ ret.c[fieldNameTraceID] = << <<"1">> >>
  /\ fieldNameShadowType \in DOMAIN ret.c
  /\ ret.c[fieldNameShadowType] = << handles[shadowTracer].typ >>

(***************************************************************************)
(* Properties of the tasks (SpecConc).                                     *)
(***************************************************************************)
\* C5: the attached backend has not been closed (a backend is closed only
\* after it was swapped out), and no sub-span is created on a handle on
\* which Close has been invoked.
C5_NoSubSpanOnClosedBackend ==
  /\ shadowTracer # 0 => handles[shadowTracer].closed = 0
  /\ ret.op = "makeShadowSpan" => ret.closed = 0

\* C7: a span returned to a caller that passed a real local parent holds
\* exactly the baggage the parent held at one instant of the call, and
\* SetBaggageItem on a span changes the baggage of no other span.
C7_BaggageSnapshot ==
  [][ /\ ( /\ ret'.op = "StartSpanCtx" /\ ret'.sp >= 1
           /\ ret'.opts.Parent # NilSpan /\ ret'.opts.Parent # noopSpan )
          => spans'[ret'.sp].baggage \in hist
      /\ ret'.op = "SetBaggageItem"
          => \A p \in 1..Len(spans) :
               p # ret'.sp => spans'[p].baggage = spans[p].baggage ]_vars

\* The copy of two baggage items into a child is complete, and another
\* task changed the parent's baggage during the call.
C7_Witness ==
  /\ creator.at = "copy" /\ creator.keys = <<>>
  /\ Cardinality(DOMAIN spans[Len(spans)].baggage) = 2
  /\ Cardinality(hist) >= 2

(***************************************************************************)
(* Properties of the checks of the options (Spec).                         *)
(***************************************************************************)
\* C11: StartSpanCtx called with both a local parent and a remote parent
\* panics, in every configuration of the tracer, and neither allocates a
\* span or a sub-span nor changes the registry.
C11_BothParentsPanic ==
  [][( /\ ret'.op = "StartSpanCtx"
       /\ ret'.opts.Parent # NilSpan /\ ret'.opts.RemoteParent # NilMeta )
     => /\ ret'.panic /\ ret'.sp = NilSpan
        /\ spans' = spans
        /\ activeSpans' = activeSpans
        /\ handles' = handles]_vars

\* The call panicked on a tracer with a backend attached, where every valid
\* call gets a real span, with a real local parent and a remote parent that
\* records.
C11_Witness ==
  /\ ret.op = "StartSpanCtx" /\ ret.panic
  /\ shadowTracer # 0
  /\ ret.opts.Parent \in RealSpans
  /\ ret.opts.RemoteParent # NilMeta
  /\ ret.opts.RemoteParent.recordingType = RecordingVerbose

(***************************************************************************)
(* Properties of the visitor's return values (SpecRegVisit).               *)
(***************************************************************************)
\* C13: when the visitor returns the stop sentinel on a span, VisitSpans
\* invokes it on no further span and returns nil; when it returns another
\* error, VisitSpans invokes it on no further span and returns that error.
C13_StopAndErrorEndTheVisit ==
  /\ visitor.at = "done" => ~ENABLED VisitCall /\ ENABLED VisitReturn
  /\ (ret.op = "VisitSpans" /\ ret.last # "nil") =>
       /\ ret.left
       /\ Len(ret.seen) = ret.visits
       /\ ret.last = "stop" => ret.err = "nil"
       /\ ret.last = "err"  => ret.err = "err"
  /\ (ret.op = "VisitSpans" /\ ret.last = "nil") => ~ret.left /\ ret.err = "nil"

\* Two spans were copied from the registry and the visitor stopped the
\* visit on the first: VisitSpans returned nil after one call.
C13_Witness ==
  /\ ret.op = "VisitSpans" /\ ret.last = "stop" /\ ret.visits = 1
  /\ Cardinality(ret.snap) = 2
  /\ Len(ret.seen) = 1 /\ ret.err = "nil"

(***************************************************************************)
(* Properties of the two halves of the wire codec (SpecCodec, SpecPeer).   *)
(***************************************************************************)
\* The keys of the last InjectMetaInto that lie in the backend's namespace.
InjectedShadowKeys == { k \in ret.keys : HasPrefix(k, prefixShadow) }

\* The keys InjectMetaInto writes for the ids and the baggage of sm, as a
\* carrier of the given kind stores them.
IdAndBaggageKeys(sm, kind) ==
  {fieldNameTraceID, fieldNameSpanID} \cup
  { IF kind = "metadataCarrier" THEN ToLower(prefixBaggage \o k) ELSE prefixBaggage \o k :
      k \in DOMAIN sm.Baggage }

\* C17: InjectMetaInto with a nil SpanMeta or one that denotes no tracing
\* calls Set with no key, leaves the carrier as it was and returns no
\* error, whatever the kind of the carrier and the backend attached.
C17_NoTracingWritesNothing ==
  (ret.op = "InjectMetaInto" /\ isNilOrNoop(ret.sm)) =>
    /\ ret.keys = {} /\ ~ret.wrote
    /\ ret.err = "nil"

\* A SpanMeta with both ids zero, with baggage and with the type of the
\* attached backend, was injected into a carrier of an unsupported kind.
C17_Witness ==
  /\ ret.op = "InjectMetaInto" /\ ret.err = "nil" /\ ~ret.wrote
  /\ ret.sm # NilMeta /\ ret.sm.traceID = 0 /\ ret.sm.spanID = 0
  /\ ret.sm.Baggage # EmptyMap
  /\ shadowTracer # 0 /\ ret.sm.shadowTracerType = handles[shadowTracer].typ
  /\ ret.kind = "other"

\* C14: InjectMetaInto of a SpanMeta that carries tracing into a supported
\* carrier writes the backend type key, and calls the backend's inject
\* whose fields land in the backend's namespace, if and only if a backend
\* is attached and its type is the SpanMeta's; otherwise it writes the
\* trace id, the span id and the baggage entries only, and returns no error.
C14_BackendFieldsIffTypeMatches ==
  (ret.op = "InjectMetaInto" /\ ~isNilOrNoop(ret.sm) /\ SupportedCarrier(ret.kind)) =>
    LET match == shadowTracer # 0 /\ handles[shadowTracer].typ = ret.sm.shadowTracerType
    IN /\ IdAndBaggageKeys(ret.sm, ret.kind) \subseteq ret.keys
       /\ (fieldNameShadowType \in ret.keys) <=> match
       /\ InjectedShadowKeys # {} => match
       /\ (match /\ ret.err = "nil") => InjectedShadowKeys # {}
       /\ ~match => /\ ret.keys = IdAndBaggageKeys(ret.sm, ret.kind)
                    /\ ret.err = "nil"

\* A Zipkin backend is attached and the SpanMeta of a Zipkin span was
\* injected: the type key and the backend's field are on the wire.
C14_Witness ==
  /\ ret.op = "InjectMetaInto" /\ ret.err = "nil"
  /\ shadowTracer # 0 /\ handles[shadowTracer].typ = zipkinType
  /\ ret.sm # NilMeta /\ ret.sm.shadowTracerType = zipkinType /\ ret.sm.traceID # 0
  /\ fieldNameShadowType \in ret.keys
  /\ prefixShadow \o shadowIdKey \in ret.keys

\* The values a carrier holds under the key f, compared as the decoder
\* compares keys, parsed as ids.
FieldVals(c, f) ==
  UNION { { ParseUint(c[k][i]) : i \in 1..Len(c[k]) } :
            k \in { x \in DOMAIN c : ToLower(x) = f } }

\* The id a carrier holds under f; 0 when it holds none.
WireId(c, f) ==
  IF FieldVals(c, f) = {} THEN 0 ELSE (CHOOSE p \in FieldVals(c, f) : TRUE).val

\* The carrier's ids are well-formed, not ambiguous and not both zero.
WireIdsGood(c) ==
  /\ \A p \in FieldVals(c, fieldNameTraceID) \cup FieldVals(c, fieldNameSpanID) : p.ok
  /\ Cardinality(FieldVals(c, fieldNameTraceID)) <= 1
  /\ Cardinality(FieldVals(c, fieldNameSpanID)) <= 1
  /\ ~(WireId(c, fieldNameTraceID) = 0 /\ WireId(c, fieldNameSpanID) = 0)

\* The backend types a carrier holds.
WireTypes(c) ==
  UNION { { c[k][i] : i \in 1..Len(c[k]) } :
            k \in { x \in DOMAIN c : ToLower(x) = fieldNameShadowType } }

\* The baggage keys of a carrier and the values it holds for one of them.
WireBaggageKeys(c) ==
  { TrimPrefix(ToLower(k), prefixBaggage) :
      k \in { x \in DOMAIN c : HasPrefix(ToLower(x), prefixBaggage) } }
WireBaggageVals(c, b) ==
  UNION { { c[k][i] : i \in 1..Len(c[k]) } :
            k \in { x \in DOMAIN c : ToLower(x) = prefixBaggage \o b } }

\* C15: ExtractMetaFrom on a supported carrier with usable ids whose backend
\* type is not the type of the attached backend, or with no backend
\* attached, returns no error and a SpanMeta with the carrier's trace id,
\* span id and baggage, no backend type and no backend context, and does
\* not call the backend's extract.
C15_MismatchDropsBackendPart ==
  ( /\ ret.op = "ExtractMetaFrom" /\ SupportedCarrier(ret.kind)
    /\ WireIdsGood(ret.c)
    /\ WireTypes(ret.c) # {}
    /\ (shadowTracer = 0 \/ handles[shadowTracer].typ \notin WireTypes(ret.c)) )
  => /\ ret.err = "nil"
     /\ ret.meta.traceID = WireId(ret.c, fieldNameTraceID)
     /\ ret.meta.spanID = WireId(ret.c, fieldNameSpanID)
     /\ DOMAIN ret.meta.Baggage = WireBaggageKeys(ret.c)
     /\ \A b \in DOMAIN ret.meta.Baggage : ret.meta.Baggage[b] \in WireBaggageVals(ret.c, b)
     /\ ret.meta.shadowTracerType = NoType
     /\ ret.meta.shadowCtx = NilCtx
     /\ ~ret.beCalled

\* A carrier written while a Zipkin backend was attached, with ids, baggage,
\* the type and the backend's field, is decoded after the backend was
\* replaced by Lightstep: the attached backend's extract is not called.
C15_Witness ==
  /\ ret.op = "ExtractMetaFrom" /\ ret.err = "nil"
  /\ shadowTracer # 0 /\ handles[shadowTracer].typ = lightstepType
  /\ WireTypes(ret.c) = {zipkinType}
  /\ ~ret.beCalled /\ ret.meta.shadowCtx = NilCtx
  /\ prefixShadow \o shadowIdKey \in DOMAIN ret.c
  /\ ret.meta.traceID = MaxUint /\ ret.meta.spanID = 16
  /\ ret.meta.Baggage # EmptyMap
  /\ ret.meta.shadowTracerType = NoType

\* C16: ExtractMetaFrom on a supported carrier that holds no trace id key
\* and no span id key returns noopSpanMeta and no error, whatever else the
\* carrier holds.
C16_NoIdKeysIsNoTracing ==
  ( /\ ret.op = "ExtractMetaFrom" /\ SupportedCarrier(ret.kind)
    /\ FieldVals(ret.c, fieldNameTraceID) = {}
    /\ FieldVals(ret.c, fieldNameSpanID) = {} )
  => ret.meta = noopSpanMeta /\ ret.err = "nil"

\* The carrier holds the type of the attached backend, a field of the
\* backend and no id.
C16_Witness ==
  /\ ret.op = "ExtractMetaFrom" /\ SupportedCarrier(ret.kind)
  /\ shadowTracer # 0
  /\ WireTypes(ret.c) = {handles[shadowTracer].typ}
  /\ prefixShadow \o shadowIdKey \in DOMAIN ret.c
  /\ FieldVals(ret.c, fieldNameTraceID) = {}
  /\ FieldVals(ret.c, fieldNameSpanID) = {}
  /\ ret.meta = noopSpanMeta /\ ret.err = "nil"

(***************************************************************************)
(* Properties of the runs of reconfigure (SpecCfg).                        *)
(***************************************************************************)
\* The last operation ran the closure reconfigure on the settings sv.
RanReconfigure(r) ==
  \/ r.op = "Configure"
  \/ r.op = "SetSetting" /\ r.name \in OnChangeSettings /\ nConfigure > 0

\* The attached backend has not been closed.
AttachedOpen == shadowTracer # 0 => handles[shadowTracer].closed = 0

\* C18: a run of reconfigure that follows a run on the same setting values
\* (a second Configure, or the second closure that a change of a setting
\* calls) leaves the mode, the debug-sink flag and the kind of the attached
\* backend as the first run left them, and the attached backend not closed.
C18_ConfigureIdempotent ==
  [][ /\ (RanReconfigure(ret) /\ ret'.op = "Configure")
         => /\ _mode' = _mode
            /\ _useNetTrace' = _useNetTrace
            /\ AttachedType' = AttachedType
            /\ AttachedOpen'
      /\ (ret'.op = "SetSetting" /\ ret'.name \in OnChangeSettings /\ nConfigure >= 2)
         => LET c1 == reconfigure(TracerCfg, sv') IN
            /\ _mode' = c1.mode
            /\ _useNetTrace' = c1.nt
            /\ AttachedType' = (IF c1.shadow = 0 THEN NoType ELSE c1.handles[c1.shadow].typ)
            /\ AttachedOpen' ]_vars

\* Configure ran twice on settings that select a backend: the first handle
\* is closed, the second is attached, open and of the same type.
C18_Witness ==
  /\ ret.op = "Configure" /\ nConfigure = 2
  /\ Len(handles) = 2 /\ shadowTracer = 2
  /\ handles[1].closed = 1 /\ handles[2].closed = 0
  /\ handles[1].typ = handles[2].typ
  /\ sv.mode = modeBackground /\ _mode = modeBackground /\ _useNetTrace = 1

\* C19: after a run of reconfigure the attached backend is a Lightstep
\* backend if the token setting is not empty, whatever the collector
\* setting; otherwise a Zipkin backend if the collector setting is not
\* empty; otherwise there is none.
C19_BackendSelection ==
  RanReconfigure(ret) =>
    /\ sv.lsToken # "" => (shadowTracer # 0 /\ handles[shadowTracer].typ = lightstepType)
    /\ (sv.lsToken = "" /\ sv.zipkin # "")
         => (shadowTracer # 0 /\ handles[shadowTracer].typ = zipkinType)
    /\ (sv.lsToken = "" /\ sv.zipkin = "") => shadowTracer = 0

\* Both settings are set, the collector setting last, and the backend is
\* Lightstep.
C19_Witness ==
  /\ ret.op = "SetSetting" /\ ret.name = "zipkin" /\ nConfigure > 0
  /\ sv.lsToken # "" /\ sv.zipkin # ""
  /\ shadowTracer # 0 /\ handles[shadowTracer].typ = lightstepType

(***************************************************************************)
(* Properties of ForkSpan, ChildSpan and ChildSpanRemote (SpecDerived).    *)
(***************************************************************************)
DerivedNames == {"ForkSpan", "ChildSpan", "ChildSpanRemote"}

\* The step is a call of StartSpanCtx with the options o whose result
\* (options, panic, span) is what ret' holds.
IsStartSpanCtxWith(o) ==
  /\ ret'.opts = o
  /\ ret'.panic = FALSE
  /\ IF ~AlwaysTrace /\ mode # modeBackground /\ recordingType(o) = RecordingOff
     THEN ret'.sp = noopSpan /\ spans' = spans /\ activeSpans' = activeSpans
     ELSE /\ ret'.sp = Len(spans) + 1
          /\ Len(spans') = Len(spans) + 1
          /\ SubSeq(spans', 1, Len(spans)) = spans
          /\ spans'[ret'.sp].parent = o.Parent
          /\ parentTraceID(o) # 0 => spans'[ret'.sp].traceID = parentTraceID(o)
          /\ spans'[ret'.sp].parentSpanID = parentSpanID(o)
          /\ activeSpans' = IF o.Parent = NilSpan THEN activeSpans \cup {ret'.sp}
                            ELSE activeSpans

\* C20: ForkSpan, ChildSpan and ChildSpanRemote on a context without a span
\* return the context they were given and no span, and allocate and
\* register nothing; on a context with a span they return what StartSpanCtx
\* returns for that span as the parent, with the follows-from reference for
\* ForkSpan and the child-of reference for the other two.
C20_DerivedSpans ==
  [][ ret'.op \in DerivedNames =>
        IF SpanFromContext(ret'.ctx) = NilSpan
        THEN /\ ~ret'.started
             /\ ret'.ctxOut = ret'.ctx /\ ret'.sp = NilSpan
             /\ spans' = spans /\ activeSpans' = activeSpans /\ handles' = handles
        ELSE LET sp == SpanFromContext(ret'.ctx) IN
             /\ ret'.started
             /\ ret'.opts.RefType =
                  (IF ret'.op = "ForkSpan" THEN FollowsFromRef ELSE ChildOfRef)
             /\ ~ret'.opts.ForceRealSpan /\ ~ret'.opts.BypassRegistry
             /\ IF ret'.op = "ChildSpanRemote"
                THEN /\ ret'.opts.Parent = NilSpan
                     /\ ret'.opts.RemoteParent # NilMeta
                     /\ ~isNoop(sp) =>
                          /\ ret'.opts.RemoteParent.traceID = spans[sp].traceID
                          /\ ret'.opts.RemoteParent.spanID = spans[sp].spanID
                ELSE /\ ret'.opts.Parent = sp
                     /\ ret'.opts.RemoteParent = NilMeta
             /\ IsStartSpanCtxWith(ret'.opts) ]_vars

\* ChildSpan was called on a context that holds a real span and returned a
\* real child of it, outside the registry.
C20_Witness ==
  /\ ret.op = "ChildSpan" /\ ret.started
  /\ SpanFromContext(ret.ctx) \in RealSpans
  /\ ret.sp \in RealSpans /\ ret.sp # SpanFromContext(ret.ctx)
  /\ spans[ret.sp].parent = SpanFromContext(ret.ctx)
  /\ ret.opts.RefType = ChildOfRef
  /\ ret.sp \notin activeSpans

(***************************************************************************)
(* Properties of the registry's lock (SpecVisit).                          *)
(***************************************************************************)
\* C12: while the visitor runs, VisitSpans does not hold the registry's
\* lock, so that a visitor that starts a root span or finishes a span,
\* which takes that lock, can run and return; and VisitSpans, once it has
\* copied the registry, can always take its next step.
C12_VisitorRunsUnlocked ==
  /\ visitor.at \in {"loop", "visitor", "done"} => activeSpansMu # "VisitSpans"
  /\ (visitor.at = "visitor" /\ (visitor.body = "start" => Len(spans) < MaxSpans))
       => ENABLED VisitorRun
  /\ visitor.at = "loop" /\ visitor.i <= Len(visitor.sl) => ENABLED VisitCall
  /\ visitor.at \in {"loop", "done"} => ENABLED (VisitCall \/ VisitReturn)

\* VisitSpans has returned after a visit during which the visitor started a
\* root span, which is now in the registry next to the span visited.
C12_Witness ==
  /\ ret.op = "VisitSpans" /\ ret.visits = 1 /\ ret.did = {"start"}
  /\ Cardinality(activeSpans) = 2

(***************************************************************************)
(* Properties of the registry and of the identity of new spans.            *)
(***************************************************************************)
\* The options of the callers that start child-of spans: every combination
\* of local parent, remote parent, WithForceRealSpan and WithBypassRegistry.
ChildOfOptions == { o \in SpanOptions : o.RefType = ChildOfRef }

\* Spans with local parents, remote parents or none are started, with and
\* without the bypass-registry option.
NextRoots ==
  \/ StartSpanCtx(ChildOfOptions, OneId)
  \/ CreateRemoteCopy

SpecRoots == InitBare /\ [][NextRoots]_vars

\* C24: a real span that StartSpanCtx returns is in the registry of active
\* root spans exactly when it was started without the bypass-registry
\* option and with no parent at all, neither local nor remote.
C24_RegisteredIffNoParentAtAll ==
  (ret.op = "StartSpanCtx" /\ ret.sp \in RealSpans) =>
    ( ret.sp \in activeSpans
        <=> ( /\ ~ret.opts.BypassRegistry
              /\ ret.opts.Parent = NilSpan
              /\ ret.opts.RemoteParent = NilMeta ) )

\* C24 (amended): a real span that StartSpanCtx returns is in the registry
\* exactly when it was started without the bypass-registry option and with
\* no local parent, whether or not it has a remote parent.
C24_RegisteredIffNoLocalParent ==
  (ret.op = "StartSpanCtx" /\ ret.sp \in RealSpans) =>
    ( ret.sp \in activeSpans
        <=> (~ret.opts.BypassRegistry /\ ret.opts.Parent = NilSpan) )

\* A span started under a remote parent that carries tracing, without the
\* bypass-registry option, was returned and is in the registry.
C24_Witness ==
  /\ ret.op = "StartSpanCtx" /\ ret.sp \in RealSpans
  /\ ret.opts.RemoteParent # NilMeta /\ ret.opts.RemoteParent.traceID # 0
  /\ ~ret.opts.BypassRegistry
  /\ ret.sp \in activeSpans

\* C26: every real span with a real local parent has that parent's trace id
\* and the parent's span id as parentSpanID; a real span returned for a
\* remote parent with a nonzero trace id has the remote parent's ids; a real
\* span returned for no parent has parentSpanID 0.
C26_TraceIdentity ==
  /\ \A s \in RealSpans :
       spans[s].parent \in RealSpans =>
         /\ spans[s].traceID = spans[spans[s].parent].traceID
         /\ spans[s].parentSpanID = spans[spans[s].parent].spanID
  /\ (ret.op = "StartSpanCtx" /\ ret.sp \in RealSpans) =>
       /\ ( /\ ret.opts.Parent = NilSpan
            /\ ret.opts.RemoteParent # NilMeta
            /\ ret.opts.RemoteParent.traceID # 0 ) =>
              /\ spans[ret.sp].traceID = ret.opts.RemoteParent.traceID
              /\ spans[ret.sp].parentSpanID = ret.opts.RemoteParent.spanID
       /\ (ret.opts.Parent = NilSpan /\ ret.opts.RemoteParent = NilMeta) =>
              spans[ret.sp].parentSpanID = 0

\* C27: a new real span with a real local parent has the local parent's
\* recording type; with the no-op span as local parent it is not recording;
\* with no local parent and a remote parent it has the remote parent's
\* recording type; with neither parent it is not recording.
C27_RecordingVerbosity ==
  (ret.op = "StartSpanCtx" /\ ret.sp \in RealSpans) =>
    LET o  == ret.opts
        rt == spans[ret.sp].recordingType
    IN  /\ o.Parent \in RealSpans => rt = spans[o.Parent].recordingType
        /\ o.Parent = noopSpan => rt = RecordingOff
        /\ (o.Parent = NilSpan /\ o.RemoteParent # NilMeta) =>
              rt = o.RemoteParent.recordingType
        /\ (o.Parent = NilSpan /\ o.RemoteParent = NilMeta) => rt = RecordingOff

\* A span was returned that records because its local parent does, and
\* the parent records because its remote parent did.
C27_Witness ==
  /\ ret.op = "StartSpanCtx" /\ ret.sp \in RealSpans
  /\ ret.opts.Parent \in RealSpans
  /\ spans[ret.sp].recordingType = RecordingVerbose
  /\ spans[ret.opts.Parent].parent = NilSpan
  /\ spans[ret.opts.Parent].recordingType = RecordingVerbose

\* The real spans started with the no-op span as local parent.
NoopParented == { s \in RealSpans : spans[s].parent = noopSpan }

\* C30: a real span started with the no-op span as local parent is not in
\* the registry, with or without the bypass-registry option, and no
\* VisitSpans reports it; when StartSpanCtx returns it, it has no baggage.
C30_NoopParentedNotRegistered ==
  /\ NoopParented \cap activeSpans = {}
  /\ visitor.at # "idle" => NoopParented \cap Range(visitor.seen) = {}
  /\ ret.op = "VisitSpans" => NoopParented \cap Range(ret.seen) = {}
  /\ (ret.op = "StartSpanCtx" /\ ret.sp \in NoopParented) =>
        spans[ret.sp].baggage = EmptyMap

\* VisitSpans ran to the end and reported a root span, while an unfinished
\* real span started under the no-op span without the bypass-registry
\* option exists.
C30_Witness ==
  /\ ret.op = "VisitSpans" /\ ~ret.left /\ Len(ret.seen) = 1
  /\ \E s \in NoopParented : ~spans[s].bypass /\ spans[s].duration < 0

(***************************************************************************)
(* Properties of Finish.                                                   *)
(***************************************************************************)
\* C22: a span is created with the duration -1; no step other than a Finish
\* of the span changes its duration; the first Finish of a span sets a
\* duration that is not negative; a later Finish of the span changes neither
\* the span records nor the registry.
C22_FinishIdempotent ==
  [][ /\ \A s \in 1..Len(spans') : s > Len(spans) => spans'[s].duration = -1
      /\ \A s \in RealSpans :
           IF ret'.op = "Finish" /\ ret'.sp = s
           THEN IF spans[s].duration < 0
                THEN spans'[s].duration >= 0
                ELSE spans' = spans /\ activeSpans' = activeSpans
           ELSE spans'[s].duration = spans[s].duration ]_vars

\* A span that was finished with the duration 0 was finished again.
C22_Witness ==
  /\ ret.op = "Finish" /\ ret.again
  /\ spans[ret.sp].duration = 0
  /\ spans[ret.sp].parent = NilSpan /\ ~spans[ret.sp].bypass

(***************************************************************************)
(* Properties of EnsureChildSpan.                                          *)
(***************************************************************************)
\* EnsureChildSpan is called on contexts that hold no span, the noopSpan or
\* one of the spans it returned before, some of them finished; the tracer
\* starts as in SpecDerived.
NextEnsure ==
  \/ EnsureChildSpan
  \/ Finish

SpecEnsure == InitDerived /\ [][NextEnsure]_vars

\* C21: EnsureChildSpan returns a span, the no-op span or a real one, for
\* every context; on a context that holds no span the options carry no parent
\* and a real span that is returned has no parent and is in the registry
\* unless WithBypassRegistry was passed.
C21_EnsureChildSpanReturnsSpan ==
  ret.op = "EnsureChildSpan" =>
    /\ ~ret.panic
    /\ ret.sp = noopSpan \/ ret.sp \in RealSpans
    /\ SpanFromContext(ret.ctx) = NilSpan =>
         /\ ret.opts.Parent = NilSpan /\ ret.opts.RemoteParent = NilMeta
         /\ ret.sp \in RealSpans =>
              /\ spans[ret.sp].parent = NilSpan
              /\ spans[ret.sp].parentSpanID = 0
              /\ ~ret.os.bypass => ret.sp \in activeSpans

\* EnsureChildSpan was called on a context that holds no span and returned
\* a real span that is in the registry.
C21_Witness ==
  /\ ret.op = "EnsureChildSpan" /\ SpanFromContext(ret.ctx) = NilSpan
  /\ ret.sp \in RealSpans /\ ret.sp \in activeSpans

(***************************************************************************)
(* Properties of the recordings.                                           *)
(***************************************************************************)
\* Roots and the spans derived from them are started and finished, and
\* recordings are read at any time; the recordings depend neither on the
\* backend nor on the debug sink.
NextRecording ==
  \/ StartSpanCtx(RootOptions, OneId)
  \/ Finish
  \/ ForkSpan
  \/ ChildSpan
  \/ ChildSpanRemote
  \/ GetRecording

SpecRecording == InitBare /\ [][NextRecording]_vars

\* The spans that the functions of names started on a context holding r.
StartedOn(names, r) ==
  { c \in RealSpans :
      /\ spans[c].origin.op \in names
      /\ SpanFromContext(spans[c].origin.ctx) = r }

\* C23: the recording GetRecording returns for a span R holds R's snapshot;
\* when R is finished it holds every finished span that ChildSpan or
\* ForkSpan started on R's context; it holds no span that ChildSpanRemote
\* started.
C23_RecordingRollUp ==
  ret.op = "GetRecording" =>
    /\ ret.sp \in ret.rec
    /\ spans[ret.sp].duration >= 0 =>
         \A c \in StartedOn({"ChildSpan", "ForkSpan"}, ret.sp) :
           spans[c].duration >= 0 => c \in ret.rec
    /\ \A c \in RealSpans \ {ret.sp} :
         spans[c].origin.op = "ChildSpanRemote" => c \notin ret.rec

\* The recording of a finished root was returned, with the root and a
\* finished span that ChildSpan started on the root's context.
C23_Witness ==
  /\ ret.op = "GetRecording"
  /\ spans[ret.sp].origin.op = "StartSpanCtx" /\ spans[ret.sp].duration >= 0
  /\ \E c \in StartedOn({"ChildSpan"}, ret.sp) :
       spans[c].duration >= 0 /\ ret.rec = {ret.sp, c}

(***************************************************************************)
(* Properties of the errors of InjectMetaInto.                             *)
(***************************************************************************)
\* C29: when InjectMetaInto returns an error, the carrier holds exactly the
\* entries it held before the call.
C29_ErrorLeavesCarrierUnchanged ==
  (ret.op = "InjectMetaInto" /\ ret.err # "nil") => ~ret.wrote

\* C29 (amended): when InjectMetaInto returns the error of an unrecognized
\* carrier, the carrier holds exactly the entries it held before the call;
\* when it returns the error of the backend's Inject, the trace id, the span
\* id, the baggage and the backend's type were written before.
C29_UnsupportedLeavesCarrierUnchanged ==
  ret.op = "InjectMetaInto" =>
    /\ ret.err \in {"nil", "unsupported carrier", "backend"}
    /\ ret.err = "unsupported carrier" => ~ret.wrote
    /\ ret.err = "backend" =>
         /\ ret.wrote
         /\ {fieldNameTraceID, fieldNameSpanID, fieldNameShadowType}
              \cup { baggageKey(ToLower(k)) : k \in DOMAIN ret.sm.Baggage }
                \subseteq { ToLower(k) : k \in ret.keys }

\* InjectMetaInto returned the error of an unrecognized carrier for a
\* SpanMeta that carries tracing and baggage.
C29_Witness ==
  /\ ret.op = "InjectMetaInto" /\ ret.err = "unsupported carrier"
  /\ ret.sm # NilMeta /\ ret.sm.traceID # 0 /\ ret.sm.Baggage # EmptyMap
  /\ carrier.m = <<>>

(***************************************************************************)
(* Properties of the span locks.                                           *)
(***************************************************************************)
\* A task creating spans and a task setting baggage items, on a tracer in
\* Background mode with a Zipkin backend or with none.
SpecMirror == InitConc /\ [][NextBaggage]_vars

\* C25: no call into a backend sub-span is made while a span lock is held:
\* the copy of a parent's baggage item into the new span does not mirror
\* the item into the new span's backend sub-span under a lock.
C25_NoLockAcrossBackendCall ==
  ret.op = "copy" => ~(ret.mirrored /\ ret.held # {})

(***************************************************************************)
(* Properties of the backend handles under concurrent reconfiguration.     *)
(***************************************************************************)
\* Changes of trace.zipkin.collector and calls of Tracer.Close in tasks
\* that interleave at the swap and at the Close of the old handle.
NextSwap ==
  \/ ReconfigureSwap
  \/ CloseSwap
  \/ SwapCloseOld
  \/ CloserSwap
  \/ CloserCloseOld

SpecSwap == InitConc /\ [][NextSwap]_vars

\* The handles that tasks inside setShadowTracer have swapped out and not
\* yet closed, one entry per task.
PendingOld ==
  (IF swapper.at = "swapped" /\ swapper.old # 0 THEN <<swapper.old>> ELSE <<>>)
    \o SelectSeq([i \in 1..MaxClosers |->
                    IF closers[i].at = "swapped" THEN closers[i].old ELSE 0],
                 LAMBDA h : h # 0)

\* C28: no handle is closed twice; the attached handle is not closed; a
\* handle that was replaced is closed once or is about to be closed by
\* exactly one task; when no task is inside setShadowTracer every handle but
\* the attached one is closed exactly once.
C28_ReplacedHandlesClosedOnce ==
  \A h \in 1..Len(handles) :
    /\ handles[h].closed <= 1
    /\ h = shadowTracer => handles[h].closed = 0 /\ h \notin Range(PendingOld)
    /\ h # shadowTracer =>
         handles[h].closed + Len(SelectSeq(PendingOld, LAMBDA x : x = h)) = 1
    /\ (PendingOld = <<>> /\ h # shadowTracer) => handles[h].closed = 1

\* Two handles were attached and replaced while another task was inside
\* setShadowTracer; all tasks have returned and both handles are closed.
C28_Witness ==
  /\ Len(handles) = 2 /\ shadowTracer = 0
  /\ swapper.at = "idle" /\ \A i \in 1..MaxClosers : closers[i].at = "idle"
  /\ handles[1].closed = 1 /\ handles[2].closed = 1
  /\ ret.op = "CloseOld" /\ ret.handle = 1

(***************************************************************************)
(* Properties of the snapshot of VisitSpans.                               *)
(***************************************************************************)
\* The sequence q holds every element of S once, and nothing else.
EnumeratesOnce(q, S) == Range(q) = S /\ Len(q) = Cardinality(S)

\* The sequence q holds elements of S only, none of them twice.
WithinOnce(q, S) ==
  /\ Range(q) \subseteq S
  /\ \A i, j \in 1..Len(q) : q[i] = q[j] => i = j

\* C31: the spans a VisitSpans call passes to the visitor are spans that
\* were in the registry when the call copied it, each at most once, and all
\* of them when the visitor never ends the loop; a span started after the
\* copy is not among them; the next span of the copy is passed to the
\* visitor whether or not it was finished since.
C31_VisitsTheSnapshot ==
  /\ visitor.at # "idle" =>
       /\ WithinOnce(visitor.seen, visitor.snap)
       /\ \A s \in RealSpans \ visitor.snap : s \notin Range(visitor.seen)
       /\ (visitor.at = "loop" /\ visitor.i > Len(visitor.sl)) =>
            EnumeratesOnce(visitor.seen, visitor.snap)
       /\ (visitor.at = "loop" /\ Range(visitor.seen) # visitor.snap) =>
            ENABLED VisitCall
  /\ ret.op = "visitor" => ret.sp \in visitor.snap
  /\ ret.op = "VisitSpans" =>
       /\ WithinOnce(ret.seen, ret.snap)
       /\ ~ret.left => EnumeratesOnce(ret.seen, ret.snap)

\* The visitor is entered with a span that was finished after the copy of
\* the registry, while a span started after the copy is in the registry.
C31_Witness ==
  /\ ret.op = "visitor" /\ visitor.at = "visitor"
  /\ spans[ret.sp].duration >= 0
  /\ activeSpans \ visitor.snap # {}
====
